---- MODULE Spec2Model ----
(***************************************************************************)
(* Order lifecycle / inventory reservation workflow of the ShoppyGlobe     *)
(* backend: Product stock, Cart, Order and the request handlers that tie   *)
(* them together (createOrder, confirmPayment, updateOrderStatus,          *)
(* addTrackingInfo, cancelOrder, createRefund, the payment-failed webhook  *)
(* and the product administration handlers).                               *)
(*                                                                         *)
(* A request handler is an async function: every `await` on the database   *)
(* is a point where other requests run.  Every handler is therefore a      *)
(* process whose steps are its database reads and writes; the code between *)
(* two awaits runs with the step that ends it.  document.save() validates, *)
(* runs the pre-save hooks and writes the paths that were modified since   *)
(* the document was loaded; findByIdAndUpdate is one atomic operation.     *)
(***************************************************************************)
EXTENDS Integers, Sequences, FiniteSets, TLC

\* ----------------------------------------------------------------- bounds
MaxStock == 2
MaxStarts == 2
MaxOps == 2
StockOps == 2
StockStarts == 1
CartOps == 2
ProductOps == 3
ShippingOps == 2
BulkQty == 21

\* ------------------------------------------------------ program constants
freeShippingThreshold == 999
baseShipping == 99
perItemShipping == 10
maxShipping == 299
taxRatePercent == 18
minCartQuantity == 1
maxCartQuantity == 99
sequenceWidth == 4

Prods == {"A", "B"}
Users == {"u1", "u2"}
Admin == "adm"
\* the requests that can be in flight at the same time
Reqs == {"r1", "r2", "r3"}
Intents == {"pi1"}
\* the month the requests run in, and the month before it
CurrentPrefix == "SG2610"
EarlierPrefix == "SG2609"
BasePrice == [p \in Prods |-> IF p = "A" THEN 100 ELSE 250]

OrderStatuses == {"pending", "confirmed", "processing", "shipped",
                  "delivered", "cancelled", "refunded"}

VARIABLES products, carts, sampleCart, orders, req, last, ledger, startsLeft, opsLeft

vars == <<products, carts, sampleCart, orders, req, last, ledger, startsLeft, opsLeft>>

\* ---------------------------------------------------------------- helpers
\* items.reduce((total, item) => total + item.quantity, 0)
RECURSIVE SumQuantity(_)
SumQuantity(s) == IF s = <<>> THEN 0 ELSE Head(s).quantity + SumQuantity(Tail(s))

\* items.reduce((total, item) => total + item.total, 0)
RECURSIVE SumTotal(_)
SumTotal(s) == IF s = <<>> THEN 0 ELSE Head(s).total + SumTotal(Tail(s))

Min(a, b) == IF a < b THEN a ELSE b
Max(a, b) == IF a > b THEN a ELSE b

\* A cart line.  addedAt is a timestamp: "earlier" stands for the instant a
\* stored line was written at, "now" for the new Date() of the call that is
\* running, which differs from every stored instant.
Line(p, q, pr) ==
  [product |-> p, quantity |-> q, price |-> pr, total |-> pr * q, addedAt |-> "now"]


\* ------------------------------------------------------------------ carts
\* A cart document: its lines, its totals and its version key (__v).
NoCart ==
  [exists |-> FALSE, items |-> <<>>, totalItems |-> 0, totalAmount |-> 0,
   isAbandoned |-> FALSE, v |-> 0]

\* the cart hook without its forEach over the lines, so that a line keeps
\* the total it had: the variant C12 must reject
CartPreSaveStaleLines(c) ==
  [c EXCEPT !.totalItems = SumQuantity(c.items),
            !.totalAmount = SumTotal(c.items)]

\* cartSchema.pre('save') on the document in memory: line totals and cart
\* totals are recomputed
CartPreSave(c) ==
  LET its == [i \in 1..Len(c.items) |->
                [c.items[i] EXCEPT !.total = c.items[i].price * c.items[i].quantity]]
  IN [c EXCEPT !.items = its,
               !.totalItems = SumQuantity(its),
               !.totalAmount = SumTotal(its)]

\* ------------------------------------------------- product references
\* The product of a cart line in memory is the ObjectId the line stores, or,
\* in a cart loaded with populate('items.product'), the product document
\* (null when the product was missing).  A populated document stands for
\* itself: its toString() is the inspection of the whole document and equals
\* the string of no ObjectId.
NullProduct == "null"
Populated == [p \in Prods |-> IF p = "A" THEN "{ _id: A, .. }" ELSE "{ _id: B, .. }"]

\* the ObjectId a reference is cast to (by a query or by the write of a
\* line): the _id of a populated document, null for null
IdOf(ref) ==
  IF ref \in Prods THEN ref
  ELSE IF \E p \in Prods : Populated[p] = ref
  THEN CHOOSE p \in Prods : Populated[p] = ref
  ELSE NullProduct

\* the lines as the database stores them: product ids, and the timestamps
\* of a write that lies in the past for every later call
Written(items) ==
  [i \in 1..Len(items) |->
     [items[i] EXCEPT !.product = IdOf(@), !.addedAt = "earlier"]]

\* cartItemSchema validators, run by save() before the pre-save hooks
CartValid(items) ==
  \A i \in 1..Len(items) :
    /\ items[i].product # NullProduct
    /\ items[i].quantity >= minCartQuantity
    /\ items[i].quantity <= maxCartQuantity
    /\ items[i].price >= 0
    /\ items[i].total >= 0

\* How save() sends the items path, from what changed since the load: a
\* shorter array was assigned as a whole ($set of the array), appended lines
\* are a $push, changed fields of existing lines (addedAt among them) are
\* positional $sets.
ItemsDelta(loaded, mem) ==
  IF Len(mem.items) < Len(loaded.items) THEN "array"
  ELSE IF SubSeq(mem.items, 1, Len(loaded.items)) # loaded.items
  THEN IF Len(mem.items) > Len(loaded.items) THEN "array" ELSE "position"
  ELSE IF Len(mem.items) > Len(loaded.items) THEN "push" ELSE "none"

\* the fields of line i that differ from the loaded copy are written
PositionalSet(storedItems, loadedItems, memItems) ==
  [i \in 1..Len(storedItems) |->
     [f \in DOMAIN storedItems[i] |->
        IF memItems[i][f] # loadedItems[i][f] THEN memItems[i][f]
        ELSE storedItems[i][f]]]

\* cart.save(): validation, the pre-save hook, then one update of the
\* modified paths.  A $set of the whole array or of a position carries the
\* version the document was loaded with in its filter and fails when the
\* stored version differs; a $set of the array and a $push increment the
\* version.  The answer holds the stored cart and the document in memory
\* afterwards; "gone" says that the cart had been deleted and the update had
\* no version filter.
SaveCart(stored, loaded, mem0) ==
  LET mem == CartPreSave(mem0)
      kind == ItemsDelta(loaded, mem)
      bump == kind \in {"array", "push"}
      items == CASE kind = "array" -> mem.items
                 [] kind = "push" ->
                      stored.items \o SubSeq(mem.items, Len(loaded.items) + 1, Len(mem.items))
                 [] kind = "position" ->
                      PositionalSet(stored.items, loaded.items, mem.items)
                 [] OTHER -> stored.items
  IN IF ~CartValid(mem0.items)
     THEN [result |-> "error", stored |-> stored, mem |-> mem0]
     ELSE IF ~stored.exists
     THEN [result |-> IF kind = "none" THEN "gone" ELSE "error",
           stored |-> stored, mem |-> mem]
     ELSE IF kind \in {"array", "position"} /\ stored.v # loaded.v
     THEN [result |-> "error", stored |-> stored, mem |-> mem]
     ELSE [result |-> "saved",
           stored |-> [exists |-> TRUE,
                       items |-> Written(items),
                       totalItems |-> IF mem.totalItems # loaded.totalItems
                                      THEN mem.totalItems ELSE stored.totalItems,
                       totalAmount |-> IF mem.totalAmount # loaded.totalAmount
                                       THEN mem.totalAmount ELSE stored.totalAmount,
                       isAbandoned |-> IF mem.isAbandoned # loaded.isAbandoned
                                       THEN mem.isAbandoned ELSE stored.isAbandoned,
                       v |-> IF bump THEN stored.v + 1 ELSE stored.v],
           mem |-> [mem EXCEPT
                      !.items = [i \in 1..Len(mem.items) |->
                                   [mem.items[i] EXCEPT !.addedAt = "earlier"]],
                      !.v = IF bump THEN loaded.v + 1 ELSE loaded.v]]

\* item.product.toString() === productId.toString() for line i: a TypeError
\* when the line's product or productId is null
TypeErrorAt(items, productId, i) ==
  items[i].product = NullProduct \/ productId = NullProduct
SameProduct(items, productId, i) ==
  ~TypeErrorAt(items, productId, i) /\ items[i].product = productId

\* items.findIndex(..) / items.find(..) with that test visit the lines up to
\* the first match, items.filter(..) visits every line
FindThrows(items, productId) ==
  \E i \in 1..Len(items) :
    /\ TypeErrorAt(items, productId, i)
    /\ \A j \in 1..(i - 1) : ~SameProduct(items, productId, j)
FilterThrows(items, productId) ==
  \E i \in 1..Len(items) : TypeErrorAt(items, productId, i)

\* items.findIndex(item => item.product == productId), 0 for -1
IndexOf(items, productId) ==
  IF \E i \in 1..Len(items) : items[i].product = productId
  THEN CHOOSE i \in 1..Len(items) :
         /\ items[i].product = productId
         /\ \A j \in 1..Len(items) : items[j].product = productId => i <= j
  ELSE 0

\* items.filter(item => item.product != productId)
FilterOut(items, productId) == SelectSeq(items, LAMBDA it : it.product # productId)

\* cartSchema.methods.addItem up to its save: the lines in memory
addItem(items, productId, quantity, price) ==
  LET i == IndexOf(items, productId)
  IN IF i > 0 THEN [items EXCEPT ![i].quantity = @ + quantity, ![i].addedAt = "now"]
     ELSE Append(items, Line(productId, quantity, price))

\* cartSchema.methods.updateItemQuantity up to its save, for a product that
\* has a line ('Item not found in cart' is thrown otherwise)
updateItemQuantity(items, productId, quantity) ==
  IF quantity <= 0 THEN FilterOut(items, productId)
  ELSE [items EXCEPT ![IndexOf(items, productId)].quantity = quantity,
                     ![IndexOf(items, productId)].addedAt = "now"]

\* cartSchema.methods.removeItem up to its save
removeItem(items, productId) == FilterOut(items, productId)

\* cartSchema.methods.clearCart up to its save
clearCart(items) == <<>>

\* A cart method up to its save, on the lines in memory: what it throws
\* ("none" when it reaches its save) and the lines it leaves
CartCall(method, items, productId, quantity, price) ==
  CASE method = "addItem" ->
         IF FindThrows(items, productId)
         THEN [error |-> "TypeError", items |-> items]
         ELSE [error |-> "none", items |-> addItem(items, productId, quantity, price)]
    [] method = "updateItemQuantity" ->
         IF FindThrows(items, productId)
         THEN [error |-> "TypeError", items |-> items]
         ELSE IF IndexOf(items, productId) = 0
         THEN [error |-> "ItemNotFound", items |-> items]
         ELSE IF quantity <= 0 /\ FilterThrows(items, productId)
         THEN [error |-> "TypeError", items |-> items]
         ELSE [error |-> "none", items |-> updateItemQuantity(items, productId, quantity)]
    [] method = "removeItem" ->
         IF FilterThrows(items, productId)
         THEN [error |-> "TypeError", items |-> items]
         ELSE [error |-> "none", items |-> removeItem(items, productId)]
    [] method = "clearCart" -> [error |-> "none", items |-> clearCart(items)]
    [] OTHER -> [error |-> "none", items |-> items]

\* populate('items.product') of a loaded cart: every line's product becomes
\* the product document, or null when no product has the id
Populate(cart, ps) ==
  [cart EXCEPT !.items =
     [i \in 1..Len(cart.items) |->
        [cart.items[i] EXCEPT !.product = IF ps[@].exists THEN Populated[@]
                                          ELSE NullProduct]]]

\* Product.findById(ref): the stored product, or none for null and for the
\* id of a deleted product
NoProduct == [exists |-> FALSE, isActive |-> FALSE, stock |-> 0, price |-> 0,
              purchases |-> 0, revenue |-> 0]
FindProduct(ps, ref) == IF IdOf(ref) \in Prods THEN ps[IdOf(ref)] ELSE NoProduct

\* ------------------------------------------- the in-memory sample cart
\* items.reduce((sum, i) => sum + i.subtotal, 0)
RECURSIVE SumSubtotal(_)
SumSubtotal(s) == IF s = <<>> THEN 0 ELSE Head(s).subtotal + SumSubtotal(Tail(s))

EmptySampleCart == [items |-> <<>>, totalItems |-> 0, totalPrice |-> 0]

\* the recomputation every sample-cart route ends with
SampleTotals(items) ==
  [items |-> items, totalItems |-> SumQuantity(items), totalPrice |-> SumSubtotal(items)]

\* items.findIndex(i => i._id == itemId) / (i => i.productId == productId)
SampleIndexById(items, itemId) ==
  IF \E i \in 1..Len(items) : items[i].id = itemId
  THEN CHOOSE i \in 1..Len(items) :
         /\ items[i].id = itemId
         /\ \A j \in 1..Len(items) : items[j].id = itemId => i <= j
  ELSE 0
SampleIndexByProduct(items, productId) ==
  IF \E i \in 1..Len(items) : items[i].productId = productId
  THEN CHOOSE i \in 1..Len(items) :
         /\ items[i].productId = productId
         /\ \A j \in 1..Len(items) : items[j].productId = productId => i <= j
  ELSE 0

\* items.splice(idx, 1)
Splice(items, idx) == SubSeq(items, 1, idx - 1) \o SubSeq(items, idx + 1, Len(items))

\* productSchema.methods.isInStock
isInStock(stock, quantity) == stock >= quantity

\* reserveStock without its isInStock guard: the variant C3 must reject
reserveStockUnchecked(stock, quantity) ==
  [ok |-> TRUE, stock |-> stock - quantity]

\* reserveStock that passes its guard but never decrements: the variant C15
\* must reject
reserveStockWithoutDecrement(stock, quantity) ==
  IF ~isInStock(stock, quantity)
  THEN [ok |-> FALSE, stock |-> stock]
  ELSE [ok |-> TRUE, stock |-> stock]

\* productSchema.methods.reserveStock on the loaded document: throws
\* 'Insufficient stock' or decrements the loaded copy (saved afterwards)
reserveStock(stock, quantity) ==
  IF ~isInStock(stock, quantity)
  THEN [ok |-> FALSE, stock |-> stock]
  ELSE [ok |-> TRUE, stock |-> stock - quantity]

\* releaseStock that leaves the stock as it was: the variant C16 must reject
releaseStockWithoutIncrement(stock, quantity) == stock

\* productSchema.methods.releaseStock on the loaded document
releaseStock(stock, quantity) == stock + quantity

calculateShippingCost(cart) ==
  IF cart.totalAmount >= freeShippingThreshold
  THEN 0
  ELSE Min(baseShipping + perItemShipping * SumQuantity(cart.items),
           maxShipping)

\* Math.round(subtotal * 0.18) on a non-negative integer subtotal
calculateTaxAmount(subtotal) == (subtotal * taxRatePercent + 50) \div 100

\* cartSchema.methods.validateItems, one line: the flag of the line or none
NoFlag == [action |-> "none", productId |-> "none", availableStock |-> 0,
           oldPrice |-> 0, newPrice |-> 0]
\* the line check looking at the price before the stock: the variant C17
\* must reject
ValidateLinePriceFirst(item, product) ==
  IF ~product.exists
  THEN [NoFlag EXCEPT !.action = "remove", !.productId = item.product]
  ELSE IF ~product.isActive
  THEN [NoFlag EXCEPT !.action = "remove", !.productId = item.product]
  ELSE IF product.price # item.price
  THEN [NoFlag EXCEPT !.action = "update_price", !.productId = item.product,
                      !.oldPrice = item.price, !.newPrice = product.price]
  ELSE IF product.stock < item.quantity
  THEN [NoFlag EXCEPT !.action = "update_quantity", !.productId = item.product,
                      !.availableStock = product.stock]
  ELSE NoFlag

ValidateLine(item, product) ==
  IF ~product.exists
  THEN [NoFlag EXCEPT !.action = "remove", !.productId = item.product]
  ELSE IF ~product.isActive
  THEN [NoFlag EXCEPT !.action = "remove", !.productId = item.product]
  ELSE IF product.stock < item.quantity
  THEN [NoFlag EXCEPT !.action = "update_quantity", !.productId = item.product,
                      !.availableStock = product.stock]
  ELSE IF product.price # item.price
  THEN [NoFlag EXCEPT !.action = "update_price", !.productId = item.product,
                      !.oldPrice = item.price, !.newPrice = product.price]
  ELSE NoFlag


\* order item pushed by createOrder / confirmPayment for a cart line, its
\* product the _id of the product found for the line
OrderItem(cartItem) ==
  [product |-> IdOf(cartItem.product), price |-> cartItem.price,
   quantity |-> cartItem.quantity, total |-> cartItem.total]

\* ------------------------------------------------------------ order model
NoCancellation == [reason |-> "none", cancelledBy |-> "none", refundStatus |-> "none"]
NoTracking == [trackingNumber |-> "none"]
NoReturnRequest == [requested |-> FALSE, reason |-> "none", status |-> "none"]

\* the milestone timestamp field a status sets (switch in updateStatus and
\* in the status-history pre-save hook); "none" for a status without one
MilestoneOf(status) ==
  CASE status = "confirmed"  -> "confirmedAt"
    [] status = "processing" -> "processedAt"
    [] status = "shipped"    -> "shippedAt"
    [] status = "delivered"  -> "deliveredAt"
    [] status = "cancelled"  -> "cancelledAt"
    [] OTHER                 -> "none"

SetMilestone(ms, status) ==
  IF MilestoneOf(status) = "none" THEN ms ELSE ms \cup {MilestoneOf(status)}

HistoryEntry(status, notes, updatedBy) ==
  [status |-> status, notes |-> notes, updatedBy |-> updatedBy]

\* the totals hook leaving the shipping cost out of the total: the variant
\* C11 must reject
OrderTotalsWithoutShipping(doc) ==
  LET sub == SumTotal(doc.items)
  IN [doc EXCEPT !.subtotal = sub,
                 !.totalAmount = sub + doc.taxAmount - doc.discountAmount]

\* orderSchema.pre('save') totals: subtotal and totalAmount are recomputed
OrderTotalsPreSave(doc) ==
  LET sub == SumTotal(doc.items)
  IN [doc EXCEPT !.subtotal = sub,
                 !.totalAmount = sub + doc.taxAmount + doc.shippingCost
                                 - doc.discountAmount]

\* orderSchema.pre('save') status history: a save of an existing order whose
\* status path is modified appends {status, timestamp} and sets the milestone
OrderHistoryPreSave(prevStatus, doc) ==
  IF doc.status # prevStatus
  THEN [doc EXCEPT !.statusHistory = Append(@, HistoryEntry(doc.status, "none", "none")),
                   !.milestones = SetMilestone(@, doc.status)]
  ELSE doc


\* document.save() of an order that already exists: the hooks run on the
\* document in memory, then the paths that differ from the loaded copy are
\* written with $set, the history entries pushed since the load with $push;
\* fresh names the sub-documents the handler assigned with a new timestamp
SaveOrder(stored, loaded, mem0, fresh) ==
  LET mem == OrderHistoryPreSave(loaded.status, OrderTotalsPreSave(mem0))
  IN [f \in DOMAIN stored |->
        CASE f = "statusHistory" ->
               stored.statusHistory
               \o SubSeq(mem.statusHistory, Len(loaded.statusHistory) + 1,
                         Len(mem.statusHistory))
          [] f = "milestones" ->
               stored.milestones \cup (mem.milestones \ loaded.milestones)
          [] OTHER ->
               IF mem[f] # loaded[f] \/ f \in fresh THEN mem[f] ELSE stored[f]]

\* the document createOrder / confirmPayment hand to Order.create: it
\* carries no orderNumber
NoNumber == [prefix |-> "none", digits |-> <<>>]
OrderDocument(user, items, subtotal, taxAmount, shippingCost, paymentMethod, paymentStatus, paymentIntentId, status) ==
  [user |-> user, items |-> items, status |-> status,
   subtotal |-> subtotal, taxAmount |-> taxAmount,
   shippingCost |-> shippingCost, discountAmount |-> 0,
   totalAmount |-> subtotal + shippingCost + taxAmount,
   paymentMethod |-> paymentMethod, paymentStatus |-> paymentStatus,
   paymentIntentId |-> paymentIntentId, orderNumber |-> NoNumber,
   statusHistory |-> <<>>, cancellation |-> NoCancellation,
   tracking |-> NoTracking, returnRequest |-> NoReturnRequest,
   milestones |-> {}]

\* the validation save() runs before every pre('save') hook: orderNumber is
\* required
OrderValid(doc) == doc.orderNumber # NoNumber

\* the document a save of a new order inserts (isNew, so no history entry
\* is pushed): the number the order-number hook assigned, the totals of the
\* totals hook
NewOrder(doc, orderNumber) ==
  OrderTotalsPreSave([doc EXCEPT !.orderNumber = orderNumber])
\* orderSchema.pre('save') order number: highest sequence of the month + 1
\* (every request of a behaviour runs in the month of CurrentPrefix)
\* An order number is kept as its prefix `SG${currentYear}${currentMonth}`
\* and the decimal digits that follow it.
\* sequence.toString()
RECURSIVE Digits(_)
Digits(n) == IF n < 10 THEN <<n>> ELSE Digits(n \div 10) \o <<n % 10>>

\* .padStart(4, '0')
RECURSIVE PadStart(_)
PadStart(ds) == IF Len(ds) >= sequenceWidth THEN ds ELSE PadStart(<<0>> \o ds)

\* `SG${currentYear}${currentMonth}${sequence.toString().padStart(4, '0')}`
FormatOrderNumber(prefix, sequence) ==
  [prefix |-> prefix, digits |-> PadStart(Digits(sequence))]

\* parseInt of a string of digits
RECURSIVE ParseInt(_)
ParseInt(ds) ==
  IF ds = <<>> THEN 0
  ELSE ParseInt(SubSeq(ds, 1, Len(ds) - 1)) * 10 + ds[Len(ds)]

\* orderNumber.substr(-4); every order number has at least four digits
LastFour(ds) == SubSeq(ds, Len(ds) - sequenceWidth + 1, Len(ds))

\* string comparison of two digit strings, as sort({orderNumber: -1}) sees
\* two numbers of the same prefix
RECURSIVE StringLess(_, _)
StringLess(a, b) ==
  IF a = <<>> THEN b # <<>>
  ELSE IF b = <<>> THEN FALSE
  ELSE IF Head(a) # Head(b) THEN Head(a) < Head(b)
  ELSE StringLess(Tail(a), Tail(b))

\* the orders matched by the RegExp `^SG${currentYear}${currentMonth}`
OfMonth(os, prefix) == {i \in 1..Len(os) : os[i].orderNumber.prefix = prefix}

\* parseInt(lastOrder.orderNumber.substr(-4)) of the month's order that
\* sorts first by descending orderNumber; 0 when the month has no order
LastSequence(os) ==
  IF OfMonth(os, CurrentPrefix) = {} THEN 0
  ELSE LET lastOrder == CHOOSE i \in OfMonth(os, CurrentPrefix) :
             \A j \in OfMonth(os, CurrentPrefix) :
               ~StringLess(os[i].orderNumber.digits, os[j].orderNumber.digits)
       IN ParseInt(LastFour(os[lastOrder].orderNumber.digits))
NextSequence(os) == LastSequence(os) + 1

\* unique index on orderNumber
NumberTaken(os, n) ==
  \E i \in 1..Len(os) : os[i].orderNumber = FormatOrderNumber(CurrentPrefix, n)


\* orderSchema.methods.updateStatus up to its save: sets the status, pushes
\* a history entry, sets the milestone
updateStatus(order, newStatus, notes, updatedBy) ==
  [order EXCEPT !.status = newStatus,
                !.statusHistory = Append(@, HistoryEntry(newStatus, notes, updatedBy)),
                !.milestones = SetMilestone(@, newStatus)]

\* orderSchema.methods.addTracking up to its save
addTracking(order, trackingNumber) ==
  [order EXCEPT !.tracking = [trackingNumber |-> trackingNumber],
                !.status = IF @ = "processing" THEN "shipped" ELSE @]

\* orderSchema.methods.cancelOrder up to its save
cancelOrder(order, reason, cancelledBy) ==
  [order EXCEPT !.status = "cancelled",
                !.cancellation =
                   [reason |-> reason, cancelledBy |-> cancelledBy,
                    refundStatus |-> IF order.paymentStatus = "paid"
                                     THEN "pending" ELSE "none"]]

\* orderSchema.methods.canBeCancelled
canBeCancelled(order) == order.status \in {"pending", "confirmed", "processing"}

\* requestReturn taking the returned lines out of the order: the variant
\* C24 must reject
requestReturnRemovingItems(order, reason) ==
  [order EXCEPT !.items = <<>>,
                !.returnRequest =
                   [requested |-> TRUE, reason |-> reason, status |-> "pending"]]

\* orderSchema.methods.requestReturn up to its save (the returned items are
\* not modelled)
requestReturn(order, reason) ==
  [order EXCEPT !.returnRequest =
     [requested |-> TRUE, reason |-> reason, status |-> "pending"]]

\* orderSchema.methods.canBeReturned; withinWindow stands for
\* Date.now() - deliveredAt < 30 days
canBeReturned(order, withinWindow) ==
  IF order.status # "delivered" THEN FALSE ELSE withinWindow

\* ------------------------------------------------------ request processes
\* Local state of a request handler: its position, its inputs, the documents
\* it has loaded and what it has written so far (reserved, cleared).
NoReserved == [p \in Prods |-> 0]
NoDoc == [status |-> "none"]
IdleReq == [pc |-> "idle", op |-> "none", user |-> "none", pm |-> "none", pi |-> "none",
            cart |-> NoCart, loaded |-> NoCart, idx |-> 0, flags |-> <<>>,
            items |-> <<>>, lstock |-> 0, nstock |-> 0, lseq |-> 0, order |-> 0,
            doc |-> NoDoc, prod |-> "none", arg |-> "none", notes |-> "none",
            amount |-> 0, outcome |-> "none", phase |-> "none",
            reserved |-> NoReserved, cleared |-> FALSE, populate |-> FALSE]

MaxQty == 2

\* carts a user can hold (one line per product, priced at the product's
\* price when it was added)
CartOf(lines) == CartPreSave([NoCart EXCEPT !.exists = TRUE, !.items = Written(lines)])
CartA == CartOf(<<Line("A", 1, BasePrice["A"])>>)
CartB == CartOf(<<Line("B", 1, BasePrice["B"])>>)
CartAB == CartOf(<<Line("A", 1, BasePrice["A"]), Line("B", MaxQty, BasePrice["B"])>>)

\* the most recent call of a product method or of a sample-cart route, and
\* its answer
NoCall == [op |-> "none", order |-> 0, arg |-> "none", ok |-> FALSE]
Call(op, order, arg, ok) == [op |-> op, order |-> order, arg |-> arg, ok |-> ok]

\* the quantity of product p over the items of an order
RECURSIVE QuantityOf(_, _)
QuantityOf(items, p) ==
  IF items = <<>> THEN 0
  ELSE (IF Head(items).product = p THEN Head(items).quantity ELSE 0)
       + QuantityOf(Tail(items), p)

\* the units of product p over the items of all orders, each order once
RECURSIVE OrderedUnits(_, _)
OrderedUnits(os, p) ==
  IF os = <<>> THEN 0 ELSE QuantityOf(Head(os).items, p) + OrderedUnits(Tail(os), p)

\* The state the server starts from: the catalogue (every product exists
\* and is active), the carts and the orders the database holds, no request
\* running.  Neither a cart nor an order is ever inserted by a handler (no
\* code creates a cart, and Order.create is rejected, see CO_Create), so the
\* documents the handlers work on are there from the start.  The stock an
\* order holds was reserved for it: ledger remembers the stock before those
\* reservations and the carts, and sums the reservations saved since.
InitWithOrders(stocks, carts1, carts2, starts, ops, collections) ==
  /\ orders \in collections
  /\ \E st \in stocks :
       /\ products = [p \in Prods |-> [exists |-> TRUE, isActive |-> TRUE,
                                      stock |-> st[p], price |-> BasePrice[p],
                                      purchases |-> 0, revenue |-> 0]]
       /\ \E c1 \in carts1, c2 \in carts2 :
            /\ carts = [u \in Users |-> IF u = "u1" THEN c1 ELSE c2]
            /\ ledger = [stock0 |-> [p \in Prods |-> st[p] + OrderedUnits(orders, p)],
                         carts0 |-> carts,
                         reserved |-> [p \in Prods |-> 0]]
  /\ sampleCart = EmptySampleCart
  /\ req = [r \in Reqs |-> IdleReq]
  /\ last = NoCall
  /\ startsLeft = starts
  /\ opsLeft = ops

InitWith(stocks, carts1, carts2, starts, ops) ==
  InitWithOrders(stocks, carts1, carts2, starts, ops, {<<>>})

Init == InitWith([Prods -> 1..MaxStock], {CartAB}, {CartA}, MaxStarts, MaxOps)

Free(r) == req[r].pc \in {"idle", "responded"}

\* the handler answers: res.status(..).json(..) or next(new AppError(..))
\* (the handler's local variables die with it; what it did is kept)
Responded(q, outcome, phase) ==
  [IdleReq EXCEPT !.pc = "responded", !.op = q.op, !.user = q.user, !.pi = q.pi,
                  !.order = q.order, !.flags = q.flags, !.reserved = q.reserved,
                  !.cleared = q.cleared, !.outcome = outcome, !.phase = phase]
Respond(r, outcome, phase) ==
  req' = [req EXCEPT ![r] = Responded(req[r], outcome, phase)]

\* product.save() after a change of the stock: the stock is written when it
\* differs from the stock the document was loaded with
SaveStock(stored, loaded, mem) == IF mem # loaded THEN mem ELSE stored

\* --------------------------------------------------------- createOrder
\* POST /api/orders by user u, Cart.findByUser, first query: findOne of the
\* user's cart.  Without a cart no second query is made and the handler
\* answers 'Cart is empty'.
CO_LoadCart(r, u, pm) ==
  /\ Free(r) /\ startsLeft > 0
  /\ startsLeft' = startsLeft - 1
  /\ LET q == [IdleReq EXCEPT !.op = "createOrder", !.user = u, !.pm = pm]
     IN IF ~carts[u].exists
        THEN req' = [req EXCEPT ![r] = Responded(q, "EmptyCart", "validation")]
        ELSE req' = [req EXCEPT ![r] =
               [q EXCEPT !.pc = "co_populate", !.cart = carts[u]]]
  /\ UNCHANGED <<sampleCart, products, carts, orders, last, ledger, opsLeft>>

\* Cart.findByUser, second query: populate('items.product') reads the
\* products of the lines the first query returned; 'Cart is empty' when the
\* cart has no lines
CO_Populate(r) ==
  /\ req[r].pc = "co_populate"
  /\ IF Len(req[r].cart.items) = 0
     THEN Respond(r, "EmptyCart", "validation")
     ELSE req' = [req EXCEPT ![r].pc = "co_validate",
                             ![r].cart = Populate(@, products), ![r].idx = 1]
  /\ UNCHANGED <<sampleCart, products, carts, orders, last, ledger, startsLeft, opsLeft>>

\* createOrder going on to the order items although validateItems returned
\* flags: the variant C6 must reject
CO_ValidateIgnoringFlags(r) ==
  /\ req[r].pc = "co_validate"
  /\ LET c == req[r].cart
         item == c.items[req[r].idx]
         flag == ValidateLine(item, FindProduct(products, item.product))
         flags == IF flag.action = "none" THEN req[r].flags
                  ELSE Append(req[r].flags, flag)
     IN IF req[r].idx < Len(c.items)
        THEN req' = [req EXCEPT ![r].idx = @ + 1, ![r].flags = flags]
        ELSE req' = [req EXCEPT ![r].pc = "co_items", ![r].idx = 1,
                                ![r].flags = flags]
  /\ UNCHANGED <<sampleCart, products, carts, orders, last, ledger, startsLeft, opsLeft>>

\* cart.validateItems(): one Product.findById per line of the populated
\* cart, the flag carrying the line's product as populated (null for a
\* product that was missing at the load); after the last line the handler
\* answers with the flags when there are any
CO_Validate(r) ==
  /\ req[r].pc = "co_validate"
  /\ LET c == req[r].cart
         item == c.items[req[r].idx]
         flag == ValidateLine(item, FindProduct(products, item.product))
         flags == IF flag.action = "none" THEN req[r].flags
                  ELSE Append(req[r].flags, flag)
     IN IF req[r].idx < Len(c.items)
        THEN req' = [req EXCEPT ![r].idx = @ + 1, ![r].flags = flags]
        ELSE IF Len(flags) > 0
        THEN req' = [req EXCEPT ![r] =
               Responded([req[r] EXCEPT !.flags = flags],
                         "CartValidationFailed", "validation")]
        ELSE req' = [req EXCEPT ![r].pc = "co_items", ![r].idx = 1,
                                ![r].flags = flags]
  /\ UNCHANGED <<sampleCart, products, carts, orders, last, ledger, startsLeft, opsLeft>>

\* the order-item loop: Product.findById per cart line, reject on a missing,
\* inactive or short product, else push the order item; after the last line
\* the amounts are computed and the document for Order.create is built
CO_PrepareItem(r) ==
  /\ req[r].pc = "co_items"
  /\ LET c == req[r].cart
         item == c.items[req[r].idx]
         product == FindProduct(products, item.product)
         items == Append(req[r].items, OrderItem(item))
         subtotal == c.totalAmount
     IN IF ~product.exists
        THEN Respond(r, "ProductNotFound", "validation")
        ELSE IF ~product.isActive
        THEN Respond(r, "ProductInactive", "validation")
        ELSE IF product.stock < item.quantity
        THEN Respond(r, "InsufficientStock", "validation")
        ELSE IF req[r].idx < Len(c.items)
        THEN req' = [req EXCEPT ![r].items = items, ![r].idx = @ + 1]
        ELSE req' = [req EXCEPT
               ![r].items = items, ![r].idx = 1, ![r].pc = "co_create",
               ![r].doc = OrderDocument(req[r].user, items, subtotal,
                            calculateTaxAmount(subtotal), calculateShippingCost(c),
                            req[r].pm, "pending", "none",
                            IF req[r].pm = "cod" THEN "confirmed" ELSE "pending")]
  /\ UNCHANGED <<sampleCart, products, carts, orders, last, ledger, startsLeft, opsLeft>>

\* Order.create(doc), first part of its save(): the document is validated
\* before any pre('save') hook runs, so the required orderNumber, which only
\* the order-number hook would assign, is missing; the rejection is caught
\* and answered with 'Order creation failed'
CO_Create(r) ==
  /\ req[r].pc = "co_create"
  /\ IF ~OrderValid(req[r].doc)
     THEN Respond(r, "OrderCreationFailed", "create")
     ELSE req' = [req EXCEPT ![r].pc = "co_number"]
  /\ UNCHANGED <<sampleCart, products, carts, orders, last, ledger, startsLeft, opsLeft>>

\* Order.create, order-number hook: findOne of the month's last order number
CO_OrderNumber(r) ==
  /\ req[r].pc = "co_number"
  /\ req' = [req EXCEPT ![r].lseq = NextSequence(orders), ![r].pc = "co_insert"]
  /\ UNCHANGED <<sampleCart, products, carts, orders, last, ledger, startsLeft, opsLeft>>

\* Order.create, the insert; a duplicate order number violates the unique
\* index, the error is caught and answered with 'Order creation failed'
CO_Insert(r) ==
  /\ req[r].pc = "co_insert"
  /\ IF NumberTaken(orders, req[r].lseq)
     THEN /\ Respond(r, "OrderCreationFailed", "create")
          /\ orders' = orders
     ELSE /\ orders' = Append(orders,
                NewOrder(req[r].doc, FormatOrderNumber(CurrentPrefix, req[r].lseq)))
          /\ req' = [req EXCEPT ![r].order = Len(orders) + 1,
                                ![r].pc = "co_reserve", ![r].idx = 1]
  /\ UNCHANGED <<sampleCart, products, carts, last, ledger, startsLeft, opsLeft>>

\* 'Reserve stock for all items': Product.findById(item.product), then
\* product.reserveStock(item.quantity) on the loaded copy; a missing
\* product is skipped, a throw is caught by the handler's catch block
CO_ReserveRead(r) ==
  /\ req[r].pc = "co_reserve"
  /\ LET item == req[r].items[req[r].idx]
         product == FindProduct(products, item.product)
         res == reserveStock(product.stock, item.quantity)
         atEnd == req[r].idx = Len(req[r].items)
     IN IF ~product.exists
        THEN req' = [req EXCEPT ![r].idx = IF atEnd THEN 1 ELSE @ + 1,
                                ![r].pc = IF atEnd THEN "co_clear" ELSE "co_reserve"]
        ELSE IF ~res.ok
        THEN Respond(r, "OrderCreationFailed", "reserve")
        ELSE req' = [req EXCEPT ![r].lstock = product.stock, ![r].nstock = res.stock,
                                ![r].pc = "co_reserve_save"]
  /\ UNCHANGED <<sampleCart, products, carts, orders, last, ledger, startsLeft, opsLeft>>

\* this.save() of reserveStock; on a product deleted meanwhile the save
\* either fails or updates nothing
CO_ReserveSave(r) ==
  /\ req[r].pc = "co_reserve_save"
  /\ LET item == req[r].items[req[r].idx]
         atEnd == req[r].idx = Len(req[r].items)
         next == [req EXCEPT ![r].idx = IF atEnd THEN 1 ELSE @ + 1,
                             ![r].pc = IF atEnd THEN "co_clear" ELSE "co_reserve"]
     IN IF products[item.product].exists
        THEN /\ products' = [products EXCEPT ![item.product].stock =
                               SaveStock(@, req[r].lstock, req[r].nstock)]
             /\ req' = [next EXCEPT ![r].reserved[item.product] = @ + item.quantity]
             /\ ledger' = [ledger EXCEPT !.reserved[item.product] = @ + item.quantity]
        ELSE /\ UNCHANGED <<products, ledger>>
             /\ \/ Respond(r, "OrderCreationFailed", "reserve")
                \/ req' = next
  /\ UNCHANGED <<sampleCart, carts, orders, last, startsLeft, opsLeft>>

\* cart.clearCart() on the cart the handler loaded; a failed save is caught
\* by the handler's catch block
CO_ClearCart(r) ==
  /\ req[r].pc = "co_clear"
  /\ LET u == req[r].user
         s == SaveCart(carts[u], req[r].cart,
                       [req[r].cart EXCEPT !.items = clearCart(@)])
     IN IF s.result = "saved"
        THEN /\ carts' = [carts EXCEPT ![u] = s.stored]
             /\ req' = [req EXCEPT ![r].pc = "co_stats", ![r].cleared = TRUE]
        ELSE /\ carts' = carts
             /\ \/ Respond(r, "OrderCreationFailed", "clear")
                \/ s.result = "gone" /\ req' = [req EXCEPT ![r].pc = "co_stats"]
  /\ UNCHANGED <<sampleCart, products, orders, last, ledger, startsLeft, opsLeft>>

\* User.findByIdAndUpdate (statistics), inside the handler's try block: a
\* failure is caught and answered with 'Order creation failed'
CO_UserStats(r) ==
  /\ req[r].pc = "co_stats"
  /\ \/ req' = [req EXCEPT ![r].pc = "co_email"]
     \/ Respond(r, "OrderCreationFailed", "stats")
  /\ UNCHANGED <<sampleCart, products, carts, orders, last, ledger, startsLeft, opsLeft>>

\* await emailService.sendOrderConfirmation in its own try/catch, then the
\* 201 response: the step is taken when the notification promise settles
\* (sent, or failed and logged); nothing is awaited between it and res.json
CO_EmailAndRespond(r) ==
  /\ req[r].pc = "co_email"
  /\ Respond(r, "created", "done")
  /\ UNCHANGED <<sampleCart, products, carts, orders, last, ledger, startsLeft, opsLeft>>

\* ------------------------------------------------------- confirmPayment
\* POST /api/payments/confirm by user u: stripe.paymentIntents.retrieve
\* (which reads nothing of the database, so that the step that follows it
\* stands for both), then the first query of Cart.findByUser: findOne of
\* the user's cart
CP_LoadCart(r, u, pi, succeeded) ==
  /\ Free(r) /\ startsLeft > 0
  /\ startsLeft' = startsLeft - 1
  /\ LET q == [IdleReq EXCEPT !.op = "confirmPayment", !.user = u,
                              !.pm = "stripe", !.pi = pi]
     IN IF ~succeeded
        THEN req' = [req EXCEPT ![r] = Responded(q, "PaymentNotCompleted", "validation")]
        ELSE IF ~carts[u].exists
        THEN req' = [req EXCEPT ![r] = Responded(q, "EmptyCart", "validation")]
        ELSE req' = [req EXCEPT ![r] =
               [q EXCEPT !.pc = "cp_populate", !.cart = carts[u]]]
  /\ UNCHANGED <<sampleCart, products, carts, orders, last, ledger, opsLeft>>

\* Cart.findByUser, second query: populate('items.product')
CP_Populate(r) ==
  /\ req[r].pc = "cp_populate"
  /\ IF Len(req[r].cart.items) = 0
     THEN Respond(r, "EmptyCart", "validation")
     ELSE req' = [req EXCEPT ![r].pc = "cp_items",
                             ![r].cart = Populate(@, products), ![r].idx = 1]
  /\ UNCHANGED <<sampleCart, products, carts, orders, last, ledger, startsLeft, opsLeft>>

\* the loop body up to product.reserveStock: findById, the two checks, the
\* order item, and reserveStock on the loaded copy
CP_ItemRead(r) ==
  /\ req[r].pc = "cp_items"
  /\ LET item == req[r].cart.items[req[r].idx]
         product == FindProduct(products, item.product)
         res == reserveStock(product.stock, item.quantity)
     IN IF ~product.exists
        THEN Respond(r, "ProductNotFound", "items")
        ELSE IF product.stock < item.quantity
        THEN Respond(r, "InsufficientStock", "items")
        ELSE IF ~res.ok
        THEN Respond(r, "PaymentConfirmationFailed", "items")
        ELSE req' = [req EXCEPT ![r].items = Append(@, OrderItem(item)),
                                ![r].lstock = product.stock,
                                ![r].nstock = res.stock,
                                ![r].pc = "cp_reserve_save"]
  /\ UNCHANGED <<sampleCart, products, carts, orders, last, ledger, startsLeft, opsLeft>>

\* this.save() of reserveStock inside the loop; after the last line the
\* amounts are computed and the document for Order.create is built
CP_ReserveSave(r) ==
  /\ req[r].pc = "cp_reserve_save"
  /\ LET c == req[r].cart
         item == c.items[req[r].idx]
         subtotal == c.totalAmount
         next == IF req[r].idx < Len(c.items)
                 THEN [req EXCEPT ![r].idx = @ + 1, ![r].pc = "cp_items"]
                 ELSE [req EXCEPT
                         ![r].idx = 1, ![r].pc = "cp_create",
                         ![r].doc = OrderDocument(req[r].user, req[r].items, subtotal,
                                      calculateTaxAmount(subtotal),
                                      calculateShippingCost(c),
                                      "stripe", "paid", req[r].pi, "confirmed")]
         p == IdOf(item.product)
     IN IF products[p].exists
        THEN /\ products' = [products EXCEPT ![p].stock =
                               SaveStock(@, req[r].lstock, req[r].nstock)]
             /\ req' = [next EXCEPT ![r].reserved[p] = @ + item.quantity]
             /\ ledger' = [ledger EXCEPT !.reserved[p] = @ + item.quantity]
        ELSE /\ UNCHANGED <<products, ledger>>
             /\ \/ Respond(r, "PaymentConfirmationFailed", "items")
                \/ req' = next
  /\ UNCHANGED <<sampleCart, carts, orders, last, startsLeft, opsLeft>>

\* Order.create(doc), first part of its save(): the validation rejects the
\* document for its missing orderNumber, after the stock of every line was
\* reserved; the rejection is caught and answered with 'Payment
\* confirmation failed'
CP_Create(r) ==
  /\ req[r].pc = "cp_create"
  /\ IF ~OrderValid(req[r].doc)
     THEN Respond(r, "PaymentConfirmationFailed", "create")
     ELSE req' = [req EXCEPT ![r].pc = "cp_number"]
  /\ UNCHANGED <<sampleCart, products, carts, orders, last, ledger, startsLeft, opsLeft>>

CP_OrderNumber(r) ==
  /\ req[r].pc = "cp_number"
  /\ req' = [req EXCEPT ![r].lseq = NextSequence(orders), ![r].pc = "cp_insert"]
  /\ UNCHANGED <<sampleCart, products, carts, orders, last, ledger, startsLeft, opsLeft>>

CP_Insert(r) ==
  /\ req[r].pc = "cp_insert"
  /\ IF NumberTaken(orders, req[r].lseq)
     THEN /\ Respond(r, "PaymentConfirmationFailed", "create")
          /\ orders' = orders
     ELSE /\ orders' = Append(orders,
                NewOrder(req[r].doc, FormatOrderNumber(CurrentPrefix, req[r].lseq)))
          /\ req' = [req EXCEPT ![r].order = Len(orders) + 1, ![r].pc = "cp_clear"]
  /\ UNCHANGED <<sampleCart, products, carts, last, ledger, startsLeft, opsLeft>>

CP_ClearCart(r) ==
  /\ req[r].pc = "cp_clear"
  /\ LET u == req[r].user
         s == SaveCart(carts[u], req[r].cart,
                       [req[r].cart EXCEPT !.items = clearCart(@)])
     IN IF s.result = "saved"
        THEN /\ carts' = [carts EXCEPT ![u] = s.stored]
             /\ req' = [req EXCEPT ![r].pc = "cp_stats", ![r].cleared = TRUE]
        ELSE /\ carts' = carts
             /\ \/ Respond(r, "PaymentConfirmationFailed", "clear")
                \/ s.result = "gone" /\ req' = [req EXCEPT ![r].pc = "cp_stats"]
  /\ UNCHANGED <<sampleCart, products, orders, last, ledger, startsLeft, opsLeft>>

\* User.findByIdAndUpdate (statistics) inside the handler's try block
CP_UserStats(r) ==
  /\ req[r].pc = "cp_stats"
  /\ \/ req' = [req EXCEPT ![r].pc = "cp_analytics", ![r].idx = 1]
     \/ Respond(r, "PaymentConfirmationFailed", "stats")
  /\ UNCHANGED <<sampleCart, products, carts, orders, last, ledger, startsLeft, opsLeft>>

\* Product.findByIdAndUpdate(item.product, {$inc: {purchases: item.quantity,
\* revenue: item.total}}) for one item; a missing product is left alone
IncAnalytics(ps, item) ==
  IF FindProduct(ps, item.product).exists
  THEN [ps EXCEPT ![item.product].purchases = @ + item.quantity,
                  ![item.product].revenue = @ + item.total]
  ELSE ps

\* 'Update product analytics': one findByIdAndUpdate per order item
CP_ProductAnalytics(r) ==
  /\ req[r].pc = "cp_analytics"
  /\ products' = IncAnalytics(products, req[r].items[req[r].idx])
  /\ req' = IF req[r].idx < Len(req[r].items)
            THEN [req EXCEPT ![r].idx = @ + 1]
            ELSE [req EXCEPT ![r].pc = "cp_email"]
  /\ UNCHANGED <<sampleCart, carts, orders, last, ledger, startsLeft, opsLeft>>

\* the confirmation email in its own try/catch and the 201 response
CP_EmailAndRespond(r) ==
  /\ req[r].pc = "cp_email"
  /\ Respond(r, "created", "done")
  /\ UNCHANGED <<sampleCart, products, carts, orders, last, ledger, startsLeft, opsLeft>>

\* ------------------------------------------------ order status handlers
OrderIds == 1..Len(orders)
Reasons == {"customer request"}
Notes == {"note"}

\* the handler's loop over the items of the order it loaded moves on, or
\* the handler answers after the last item
NextItem(r, outcome) ==
  IF req[r].idx < Len(req[r].doc.items)
  THEN [req EXCEPT ![r].idx = @ + 1]
  ELSE [req EXCEPT ![r] = Responded(req[r], outcome, "done")]

\* PUT /api/orders/:id/status by the admin: Order.findById
US_Load(r, o, status, notes) ==
  /\ Free(r) /\ opsLeft > 0 /\ o \in OrderIds
  /\ opsLeft' = opsLeft - 1
  /\ req' = [req EXCEPT ![r] =
        [IdleReq EXCEPT !.pc = "us_save", !.op = "updateOrderStatus",
                        !.user = Admin, !.order = o, !.doc = orders[o],
                        !.arg = status, !.notes = notes]]
  /\ UNCHANGED <<sampleCart, products, carts, orders, last, ledger, startsLeft>>

\* order.updateStatus(status, notes, admin) with its save; then the switch:
\* for 'delivered' the handler goes on to the product analytics, for
\* 'cancelled' to the release of the stock, item by item; for the other
\* statuses it answers (after the e-mail of 'confirmed' and 'shipped')
US_Save(r) ==
  /\ req[r].pc = "us_save"
  /\ LET o == req[r].order
         status == req[r].arg
         mem == updateStatus(req[r].doc, status, req[r].notes, req[r].user)
     IN /\ orders' = [orders EXCEPT ![o] = SaveOrder(@, req[r].doc, mem, {})]
        /\ req' = IF status = "delivered"
                  THEN [req EXCEPT ![r].pc = "us_analytics", ![r].idx = 1]
                  ELSE IF status = "cancelled"
                  THEN [req EXCEPT ![r].pc = "us_release", ![r].idx = 1]
                  ELSE [req EXCEPT ![r] = Responded(req[r], "updated", "done")]
  /\ UNCHANGED <<sampleCart, products, carts, last, ledger, startsLeft, opsLeft>>

\* case 'delivered': Product.findByIdAndUpdate(item.product, {$inc:
\* {purchases, revenue}}) for one item of the order
US_Analytics(r) ==
  /\ req[r].pc = "us_analytics"
  /\ products' = IncAnalytics(products, req[r].doc.items[req[r].idx])
  /\ req' = NextItem(r, "updated")
  /\ UNCHANGED <<sampleCart, carts, orders, last, ledger, startsLeft, opsLeft>>

\* case 'cancelled', 'Release reserved stock': Product.findById(item.product),
\* then product.releaseStock(item.quantity) on the loaded copy
US_ReleaseRead(r) ==
  /\ req[r].pc = "us_release"
  /\ LET item == req[r].doc.items[req[r].idx]
         product == FindProduct(products, item.product)
     IN IF ~product.exists
        THEN req' = NextItem(r, "updated")
        ELSE req' = [req EXCEPT ![r].lstock = product.stock,
                                ![r].nstock = releaseStock(product.stock, item.quantity),
                                ![r].pc = "us_release_save"]
  /\ UNCHANGED <<sampleCart, products, carts, orders, last, ledger, startsLeft, opsLeft>>

\* this.save() of releaseStock
US_ReleaseSave(r) ==
  /\ req[r].pc = "us_release_save"
  /\ LET item == req[r].doc.items[req[r].idx]
         next == NextItem(r, "updated")
     IN IF products[item.product].exists
        THEN /\ products' = [products EXCEPT ![item.product].stock =
                               SaveStock(@, req[r].lstock, req[r].nstock)]
             /\ req' = [next EXCEPT ![r].pc = IF @ = "responded" THEN @ ELSE "us_release"]
        ELSE /\ products' = products
             /\ \/ Respond(r, "ServerError", "release")
                \/ req' = [next EXCEPT ![r].pc = IF @ = "responded" THEN @ ELSE "us_release"]
  /\ UNCHANGED <<sampleCart, carts, orders, last, ledger, startsLeft, opsLeft>>

\* PUT /api/orders/:id/tracking by the admin: Order.findById
AT_Load(r, o, trackingNumber) ==
  /\ Free(r) /\ opsLeft > 0 /\ o \in OrderIds
  /\ opsLeft' = opsLeft - 1
  /\ req' = [req EXCEPT ![r] =
        [IdleReq EXCEPT !.pc = "at_save", !.op = "addTrackingInfo",
                        !.user = Admin, !.order = o, !.doc = orders[o],
                        !.arg = trackingNumber]]
  /\ UNCHANGED <<sampleCart, products, carts, orders, last, ledger, startsLeft>>

\* order.addTracking(..) with its save, the shipping e-mail in its own
\* try/catch, and the answer
AT_Save(r) ==
  /\ req[r].pc = "at_save"
  /\ orders' = [orders EXCEPT ![req[r].order] =
                  SaveOrder(@, req[r].doc, addTracking(req[r].doc, req[r].arg),
                            {"tracking"})]
  /\ Respond(r, "tracked", "done")
  /\ UNCHANGED <<sampleCart, products, carts, last, ledger, startsLeft, opsLeft>>

\* PUT /api/orders/:id/cancel by user u (the admin may cancel any order):
\* Order.findOne and the two checks
CN_Load(r, u, o, reason) ==
  /\ Free(r) /\ opsLeft > 0 /\ o \in OrderIds
  /\ opsLeft' = opsLeft - 1
  /\ LET q == [IdleReq EXCEPT !.op = "cancelOrder", !.user = u, !.order = o,
                              !.arg = reason]
     IN req' = [req EXCEPT ![r] =
          IF u # Admin /\ orders[o].user # u
          THEN Responded(q, "OrderNotFound", "validation")
          ELSE IF ~canBeCancelled(orders[o])
          THEN Responded(q, "CannotBeCancelled", "validation")
          ELSE [q EXCEPT !.pc = "cn_save", !.doc = orders[o]]]
  /\ UNCHANGED <<sampleCart, products, carts, orders, last, ledger, startsLeft>>

\* order.cancelOrder(reason, user) with its save, and the answer
CN_Save(r) ==
  /\ req[r].pc = "cn_save"
  /\ orders' = [orders EXCEPT ![req[r].order] =
                  SaveOrder(@, req[r].doc,
                            cancelOrder(req[r].doc, req[r].arg, req[r].user),
                            {"cancellation"})]
  /\ Respond(r, "cancelled", "done")
  /\ UNCHANGED <<sampleCart, products, carts, last, ledger, startsLeft, opsLeft>>

\* POST /api/orders/:id/return by user u: Order.findOne and the checks;
\* withinWindow tells whether less than 30 days have passed since the
\* deliveredAt of the loaded order (canBeReturned throws on a delivered
\* order without deliveredAt)
RR_Load(r, u, o, reason, withinWindow) ==
  /\ Free(r) /\ opsLeft > 0 /\ o \in OrderIds
  /\ opsLeft' = opsLeft - 1
  /\ LET q == [IdleReq EXCEPT !.op = "requestReturn", !.user = u, !.order = o,
                              !.arg = reason]
     IN req' = [req EXCEPT ![r] =
          IF u # Admin /\ orders[o].user # u
          THEN Responded(q, "OrderNotFound", "validation")
          ELSE IF orders[o].status = "delivered"
                  /\ "deliveredAt" \notin orders[o].milestones
          THEN Responded(q, "ServerError", "validation")
          ELSE IF ~canBeReturned(orders[o], withinWindow)
          THEN Responded(q, "CannotBeReturned", "validation")
          ELSE IF orders[o].returnRequest.requested
          THEN Responded(q, "ReturnAlreadyRequested", "validation")
          ELSE [q EXCEPT !.pc = "rr_save", !.doc = orders[o]]]
  /\ UNCHANGED <<sampleCart, products, carts, orders, last, ledger, startsLeft>>

\* order.requestReturn(items, reason) with its save, and the answer
RR_Save(r) ==
  /\ req[r].pc = "rr_save"
  /\ orders' = [orders EXCEPT ![req[r].order] =
                  SaveOrder(@, req[r].doc, requestReturn(req[r].doc, req[r].arg),
                            {"returnRequest"})]
  /\ Respond(r, "returnRequested", "done")
  /\ UNCHANGED <<sampleCart, products, carts, last, ledger, startsLeft, opsLeft>>

\* Product.findByIdAndUpdate(item.product, {$inc: {stock: item.quantity}})
\* for one item; a missing product is left alone
IncStock(ps, item) ==
  IF FindProduct(ps, item.product).exists
  THEN [ps EXCEPT ![item.product].stock = @ + item.quantity]
  ELSE ps

\* POST /api/payments/refund by the admin; amount 0 stands for an absent
\* amount: Order.findById and the checks
RefundAmounts(order) == {0, 100, order.totalAmount * 100}
RF_Load(r, o, amount) ==
  /\ Free(r) /\ opsLeft > 0 /\ o \in OrderIds
  /\ amount \in RefundAmounts(orders[o])
  /\ opsLeft' = opsLeft - 1
  /\ LET q == [IdleReq EXCEPT !.op = "createRefund", !.user = Admin, !.order = o,
                              !.amount = amount]
     IN req' = [req EXCEPT ![r] =
          IF orders[o].paymentStatus # "paid"
          THEN Responded(q, "NotPaid", "validation")
          ELSE IF orders[o].paymentIntentId = "none"
          THEN Responded(q, "NoPaymentIntent", "validation")
          ELSE [q EXCEPT !.pc = "rf_save", !.doc = orders[o]]]
  /\ UNCHANGED <<sampleCart, products, carts, orders, last, ledger, startsLeft>>

\* stripe.refunds.create, then the payment status and the status are set on
\* the loaded order and saved; after a full refund the handler goes on to
\* give the stock back, item by item
RF_Save(r, stripeOk) ==
  /\ req[r].pc = "rf_save"
  /\ LET order == req[r].doc
         refundAmount == IF req[r].amount # 0 THEN req[r].amount
                         ELSE order.totalAmount * 100
         full == refundAmount >= order.totalAmount * 100
         mem == [order EXCEPT !.paymentStatus = IF full THEN "refunded"
                                                ELSE "partially_refunded",
                              !.status = "refunded"]
     IN IF ~stripeOk
        THEN /\ Respond(r, "RefundFailed", "refund")
             /\ orders' = orders
        ELSE /\ orders' = [orders EXCEPT ![req[r].order] = SaveOrder(@, order, mem, {})]
             /\ req' = IF full
                       THEN [req EXCEPT ![r].pc = "rf_restock", ![r].idx = 1]
                       ELSE [req EXCEPT ![r] = Responded(req[r], "refunded", "done")]
  /\ UNCHANGED <<sampleCart, products, carts, last, ledger, startsLeft, opsLeft>>

\* 'Restore product stock if full refund': one findByIdAndUpdate per item
RF_Restock(r) ==
  /\ req[r].pc = "rf_restock"
  /\ products' = IncStock(products, req[r].doc.items[req[r].idx])
  /\ req' = NextItem(r, "refunded")
  /\ UNCHANGED <<sampleCart, carts, orders, last, ledger, startsLeft, opsLeft>>

\* the first order carrying the payment intent (Order.findOne), 0 if none
FindByIntent(os, pi) ==
  IF \E i \in 1..Len(os) : os[i].paymentIntentId = pi
  THEN CHOOSE i \in 1..Len(os) :
         /\ os[i].paymentIntentId = pi
         /\ \A j \in 1..Len(os) : os[j].paymentIntentId = pi => i <= j
  ELSE 0

\* webhook payment_intent.payment_failed: Order.findOne by the intent
PF_Load(r, pi) ==
  /\ Free(r) /\ opsLeft > 0
  /\ opsLeft' = opsLeft - 1
  /\ LET o == FindByIntent(orders, pi)
         q == [IdleReq EXCEPT !.op = "handlePaymentFailed", !.pi = pi, !.order = o]
     IN req' = [req EXCEPT ![r] =
          IF o = 0 THEN Responded(q, "ignored", "done")
          ELSE [q EXCEPT !.pc = "pf_save", !.doc = orders[o]]]
  /\ UNCHANGED <<sampleCart, products, carts, orders, last, ledger, startsLeft>>

\* the payment status and the status are set on the loaded order and saved
PF_Save(r) ==
  /\ req[r].pc = "pf_save"
  /\ orders' = [orders EXCEPT ![req[r].order] =
                  SaveOrder(@, req[r].doc,
                            [req[r].doc EXCEPT !.paymentStatus = "failed",
                                               !.status = "cancelled"],
                            {})]
  /\ req' = [req EXCEPT ![r].pc = "pf_restock", ![r].idx = 1]
  /\ UNCHANGED <<sampleCart, products, carts, last, ledger, startsLeft, opsLeft>>

\* 'Release reserved stock': one findByIdAndUpdate per item
PF_Restock(r) ==
  /\ req[r].pc = "pf_restock"
  /\ products' = IncStock(products, req[r].doc.items[req[r].idx])
  /\ req' = NextItem(r, "handled")
  /\ UNCHANGED <<sampleCart, carts, orders, last, ledger, startsLeft, opsLeft>>

\* ------------------------------------------- product administration
\* PUT /api/products/:id/stock by the admin: the check of the body,
\* Product.findById, and the operation on the loaded copy
PS_Load(r, p, stock, operation) ==
  /\ Free(r) /\ opsLeft > 0
  /\ opsLeft' = opsLeft - 1
  /\ LET q == [IdleReq EXCEPT !.op = "updateProductStock", !.user = Admin, !.prod = p]
     IN req' = [req EXCEPT ![r] =
          IF stock < 0
          THEN Responded(q, "InvalidStock", "validation")
          ELSE IF ~products[p].exists
          THEN Responded(q, "ProductNotFound", "validation")
          ELSE [q EXCEPT !.pc = "ps_save",
                         !.lstock = products[p].stock,
                         !.nstock = IF operation = "add"
                                    THEN products[p].stock + stock
                                    ELSE IF operation = "subtract"
                                    THEN Max(0, products[p].stock - stock)
                                    ELSE stock]]
  /\ UNCHANGED <<sampleCart, products, carts, orders, last, ledger, startsLeft>>

\* product.save() of updateProductStock; on a product deleted meanwhile the
\* save either fails or updates nothing
PS_Save(r) ==
  /\ req[r].pc = "ps_save"
  /\ IF products[req[r].prod].exists
     THEN /\ products' = [products EXCEPT ![req[r].prod].stock =
                            SaveStock(@, req[r].lstock, req[r].nstock)]
          /\ Respond(r, "updated", "done")
     ELSE /\ products' = products
          /\ \/ Respond(r, "ServerError", "save")
             \/ Respond(r, "updated", "done")
  /\ UNCHANGED <<sampleCart, carts, orders, last, ledger, startsLeft, opsLeft>>

\* PUT /api/products/:id by the admin with the body {field: value}, the
\* field being isActive, price or stock: Product.findById
UP_Load(r, p, field, value) ==
  /\ Free(r) /\ opsLeft > 0
  /\ field \in {"isActive", "price", "stock"}
  /\ opsLeft' = opsLeft - 1
  /\ LET q == [IdleReq EXCEPT !.op = "updateProduct", !.user = Admin, !.prod = p,
                              !.arg = field, !.amount = value]
     IN req' = [req EXCEPT ![r] =
          IF ~products[p].exists
          THEN Responded(q, "ProductNotFound", "validation")
          ELSE [q EXCEPT !.pc = "up_write"]]
  /\ UNCHANGED <<sampleCart, products, carts, orders, last, ledger, startsLeft>>

\* Product.findByIdAndUpdate(id, req.body, {runValidators: true}): one
\* atomic update of the body's field, rejected by the min validators for a
\* negative price or stock; it resolves with null for a product deleted
\* meanwhile, and the handler throws on product.title
UP_Write(r) ==
  /\ req[r].pc = "up_write"
  /\ LET field == req[r].arg
         value == req[r].amount
     IN IF field \in {"price", "stock"} /\ value < 0
        THEN /\ products' = products
             /\ Respond(r, "ValidationError", "write")
        ELSE IF products[req[r].prod].exists
        THEN /\ products' = [products EXCEPT ![req[r].prod] =
                               CASE field = "isActive" -> [@ EXCEPT !.isActive = (value = 1)]
                                 [] field = "price" -> [@ EXCEPT !.price = value]
                                 [] OTHER -> [@ EXCEPT !.stock = value]]
             /\ Respond(r, "updated", "done")
        ELSE /\ products' = products
             /\ Respond(r, "ServerError", "write")
  /\ UNCHANGED <<sampleCart, carts, orders, last, ledger, startsLeft, opsLeft>>

\* POST /api/products by the admin, the body holding the price and the
\* stock of the new product p: Category.findById of the body's category
NP_Category(r, p, price, stock, found) ==
  /\ Free(r) /\ opsLeft > 0
  /\ opsLeft' = opsLeft - 1
  /\ LET q == [IdleReq EXCEPT !.op = "createProduct", !.user = Admin, !.prod = p,
                              !.amount = price, !.nstock = stock]
     IN req' = [req EXCEPT ![r] =
          IF ~found THEN Responded(q, "CategoryNotFound", "validation")
          ELSE [q EXCEPT !.pc = "np_create"]]
  /\ UNCHANGED <<sampleCart, products, carts, orders, last, ledger, startsLeft>>

\* Product.create(req.body): the validators (price and stock not negative),
\* then the insert of an active product without purchases; the insert of an
\* _id the collection holds is a duplicate-key error
NP_Create(r) ==
  /\ req[r].pc = "np_create"
  /\ IF req[r].amount < 0 \/ req[r].nstock < 0
     THEN /\ products' = products
          /\ Respond(r, "ValidationError", "create")
     ELSE IF products[req[r].prod].exists
     THEN /\ products' = products
          /\ Respond(r, "ServerError", "create")
     ELSE /\ products' = [products EXCEPT ![req[r].prod] =
                            [exists |-> TRUE, isActive |-> TRUE,
                             stock |-> req[r].nstock, price |-> req[r].amount,
                             purchases |-> 0, revenue |-> 0]]
          /\ Respond(r, "created", "done")
  /\ UNCHANGED <<sampleCart, carts, orders, last, ledger, startsLeft, opsLeft>>

\* DELETE /api/products/:id by the admin: Product.findById
DP_Load(r, p) ==
  /\ Free(r) /\ opsLeft > 0
  /\ opsLeft' = opsLeft - 1
  /\ LET q == [IdleReq EXCEPT !.op = "deleteProduct", !.user = Admin, !.prod = p]
     IN req' = [req EXCEPT ![r] =
          IF ~products[p].exists
          THEN Responded(q, "ProductNotFound", "validation")
          ELSE [q EXCEPT !.pc = "dp_delete"]]
  /\ UNCHANGED <<sampleCart, products, carts, orders, last, ledger, startsLeft>>

\* product.deleteOne()
DP_Delete(r) ==
  /\ req[r].pc = "dp_delete"
  /\ products' = [products EXCEPT ![req[r].prod].exists = FALSE]
  /\ Respond(r, "deleted", "done")
  /\ UNCHANGED <<sampleCart, carts, orders, last, ledger, startsLeft, opsLeft>>

\* ---------------------------------------------------- product methods
\* A call of a product method by a caller that has loaded the product.  The
\* answer keeps the stock of the document before the call and the stock of
\* the product the call resolves with.
StockCall(op, productId, quantity, before, result, ok) ==
  [op |-> op, order |-> 0, arg |-> productId, ok |-> ok,
   quantity |-> quantity, before |-> before, result |-> result]

\* Product.findById by the caller
SM_Load(r, p, method, quantity) ==
  /\ Free(r) /\ opsLeft > 0 /\ products[p].exists
  /\ opsLeft' = opsLeft - 1
  /\ req' = [req EXCEPT ![r] =
        [IdleReq EXCEPT !.pc = "sm_call", !.op = method, !.prod = p,
                        !.amount = quantity, !.lstock = products[p].stock]]
  /\ UNCHANGED <<sampleCart, products, carts, orders, last, ledger, startsLeft>>

\* product.reserveStock(quantity) / product.releaseStock(quantity) on the
\* loaded document, its save included
SM_Call(r) ==
  /\ req[r].pc = "sm_call"
  /\ LET p == req[r].prod
         q == req[r].amount
         s == req[r].lstock
         res == IF req[r].op = "reserveStock" THEN reserveStock(s, q)
                ELSE [ok |-> TRUE, stock |-> releaseStock(s, q)]
     IN IF ~res.ok
        THEN /\ products' = products
             /\ last' = StockCall(req[r].op, p, q, s, s, FALSE)
             /\ Respond(r, "InsufficientStock", "call")
        ELSE IF products[p].exists
        THEN /\ products' = [products EXCEPT ![p].stock = SaveStock(@, s, res.stock)]
             /\ last' = StockCall(req[r].op, p, q, s, res.stock, TRUE)
             /\ Respond(r, "saved", "done")
        ELSE /\ products' = products
             /\ \/ /\ last' = StockCall(req[r].op, p, q, s, s, FALSE)
                   /\ Respond(r, "ServerError", "save")
                \/ /\ last' = StockCall(req[r].op, p, q, s, res.stock, TRUE)
                   /\ Respond(r, "saved", "done")
  /\ UNCHANGED <<sampleCart, carts, orders, ledger, startsLeft, opsLeft>>

\* ------------------------------------------------------- cart operations
\* A call of a cart method by a caller that has loaded the cart of user u:
\* with Cart.findByUser (findOne, then populate('items.product')), or with
\* the plain findOne, which leaves the lines holding product ids.
CartMethods == {"addItem", "updateItemQuantity", "removeItem", "clearCart",
                "markAsAbandoned", "validateItems", "applyValidation"}

\* the request once the document is loaded: a method that saves at once, or
\* validateItems, which on a cart without lines resolves with no flag
CartLoaded(q, cart) ==
  LET l == [q EXCEPT !.cart = cart, !.loaded = cart, !.idx = 1]
  IN IF q.op \in {"validateItems", "applyValidation"}
     THEN IF Len(cart.items) > 0 THEN [l EXCEPT !.pc = "vi_line"]
          ELSE IF q.op = "validateItems" THEN Responded(l, "validated", "done")
          ELSE [l EXCEPT !.pc = "av_result"]
     ELSE [l EXCEPT !.pc = "cs_save"]

\* A caller of the cart methods loads the user's cart: Cart.findOne({ user })
\* alone (the lines hold product ids, which the methods match against the
\* productId) or as the first query of Cart.findByUser, whose populate is a
\* second query (the lines then hold product documents or null).  addItem is
\* called with the product's price.
CS_Load(r, u, method, p, quantity, populate) ==
  /\ Free(r) /\ opsLeft > 0 /\ carts[u].exists
  /\ method \in CartMethods
  /\ method = "addItem" => products[p].exists
  /\ opsLeft' = opsLeft - 1
  /\ LET q == [IdleReq EXCEPT !.op = method, !.user = u, !.prod = p,
                              !.amount = quantity, !.populate = populate,
                              !.nstock = IF method = "addItem"
                                         THEN products[p].price ELSE 0]
     IN req' = [req EXCEPT ![r] =
          IF populate
          THEN [q EXCEPT !.pc = "cs_populate", !.cart = carts[u], !.loaded = carts[u]]
          ELSE CartLoaded(q, carts[u])]
  /\ UNCHANGED <<sampleCart, products, carts, orders, last, ledger, startsLeft>>

\* the second query of Cart.findByUser: populate('items.product')
CS_Populate(r) ==
  /\ req[r].pc = "cs_populate"
  /\ req' = [req EXCEPT ![r] = CartLoaded(req[r], Populate(req[r].cart, products))]
  /\ UNCHANGED <<sampleCart, products, carts, orders, last, ledger, startsLeft, opsLeft>>

\* the request goes on with the document as the save left it in memory; an
\* answered request keeps no document
GoOn(q, mem) == IF q.pc = "responded" THEN q ELSE [q EXCEPT !.cart = mem, !.loaded = mem]

\* the save of the cart in memory: the stored cart and the request
\* afterwards; goingOn stands for the request when the save went through.
\* A save that found the cart deleted either fails or updates nothing.
CartSaved(r, mem, goingOn) ==
  LET u == req[r].user
      s == SaveCart(carts[u], req[r].loaded, mem)
  IN IF s.result = "saved"
     THEN /\ carts' = [carts EXCEPT ![u] = s.stored]
          /\ req' = [req EXCEPT ![r] = GoOn(goingOn, s.mem)]
     ELSE /\ carts' = carts
          /\ \/ Respond(r, "ServerError", "save")
             \/ /\ s.result = "gone"
                /\ req' = [req EXCEPT ![r] = GoOn(goingOn, s.mem)]

\* addItem, updateItemQuantity, removeItem, clearCart or markAsAbandoned on
\* the loaded cart, its save included; a method that throws saves nothing
CS_Save(r) ==
  /\ req[r].pc = "cs_save"
  /\ LET c == req[r].cart
         call == CartCall(req[r].op, c.items, req[r].prod, req[r].amount, req[r].nstock)
         done == Responded(req[r], "saved", "done")
     IN IF call.error # "none"
        THEN /\ Respond(r, call.error, "call")
             /\ carts' = carts
        ELSE CartSaved(r,
               [c EXCEPT !.items = call.items,
                         !.isAbandoned = IF req[r].op = "markAsAbandoned" THEN TRUE ELSE @],
               done)
  /\ UNCHANGED <<sampleCart, products, orders, last, ledger, startsLeft, opsLeft>>

\* cartSchema.methods.validateItems: Product.findById for one line and the
\* line's flag; after the last line validateItems resolves with the flags,
\* and a caller that applies them goes on with applyValidation
VI_Line(r) ==
  /\ req[r].pc = "vi_line"
  /\ LET c == req[r].cart
         item == c.items[req[r].idx]
         flag == ValidateLine(item, FindProduct(products, item.product))
         flags == IF flag.action = "none" THEN req[r].flags
                  ELSE Append(req[r].flags, flag)
     IN req' = [req EXCEPT ![r] =
          IF req[r].idx < Len(c.items)
          THEN [req[r] EXCEPT !.idx = @ + 1, !.flags = flags]
          ELSE IF req[r].op = "validateItems"
          THEN Responded([req[r] EXCEPT !.flags = flags], "validated", "done")
          ELSE [req[r] EXCEPT !.pc = "av_result", !.idx = 1, !.flags = flags]]
  /\ UNCHANGED <<sampleCart, products, carts, orders, last, ledger, startsLeft, opsLeft>>

\* case 'update_price' of applyValidation: the results from idx on that only
\* set a price in memory are applied (this.getItem, then item.price); the
\* answer holds the lines, the index of the first result left and whether
\* getItem threw
RECURSIVE ApplyPrices(_, _, _)
ApplyPrices(items, results, idx) ==
  IF idx > Len(results) \/ results[idx].action # "update_price"
  THEN [items |-> items, idx |-> idx, error |-> "none"]
  ELSE IF FindThrows(items, results[idx].productId)
  THEN [items |-> items, idx |-> idx, error |-> "TypeError"]
  ELSE LET i == IndexOf(items, results[idx].productId)
       IN ApplyPrices(IF i > 0 THEN [items EXCEPT ![i].price = results[idx].newPrice]
                      ELSE items,
                      results, idx + 1)

\* cartSchema.methods.applyValidation up to its next save: the price updates
\* that come first, then this.removeItem or this.updateItemQuantity of the
\* next result with its save, or, after the last result, the closing save;
\* a throw ends applyValidation without a further save
AV_Result(r) ==
  /\ req[r].pc = "av_result"
  /\ LET c == req[r].cart
         pr == ApplyPrices(c.items, req[r].flags, req[r].idx)
         result == req[r].flags[pr.idx]
         call == CartCall(IF result.action = "remove" THEN "removeItem"
                          ELSE "updateItemQuantity",
                          pr.items, result.productId, result.availableStock, 0)
         done == Responded(req[r], "applied", "done")
     IN IF pr.error # "none"
        THEN /\ Respond(r, pr.error, "call")
             /\ carts' = carts
        ELSE IF pr.idx > Len(req[r].flags)
        THEN CartSaved(r, [c EXCEPT !.items = pr.items], done)
        ELSE IF call.error # "none"
        THEN /\ Respond(r, call.error, "call")
             /\ carts' = carts
        ELSE CartSaved(r, [c EXCEPT !.items = call.items],
                       [req[r] EXCEPT !.idx = pr.idx + 1])
  /\ UNCHANGED <<sampleCart, products, orders, last, ledger, startsLeft, opsLeft>>

\* Cart.cleanupEmptyCarts: deleteMany of the carts without lines that were
\* last modified before the cutoff; old holds the users whose cart is that
\* old
CleanupEmptyCarts(old) ==
  /\ \E u \in old : carts[u].exists /\ Len(carts[u].items) = 0
  /\ carts' = [u \in Users |->
                 IF u \in old /\ carts[u].exists /\ Len(carts[u].items) = 0
                 THEN NoCart ELSE carts[u]]
  /\ UNCHANGED <<sampleCart, products, orders, req, last, ledger, startsLeft, opsLeft>>

\* --------------------------------------------------------- sample cart
\* POST /api/cart of the sample cart; id stands for `item_${Date.now()}`
SampleCartPost(productId, quantity, price, id) ==
  /\ opsLeft > 0
  /\ opsLeft' = opsLeft - 1
  /\ LET idx == SampleIndexByProduct(sampleCart.items, productId)
         items == IF idx > 0
                  THEN [sampleCart.items EXCEPT
                          ![idx].quantity = @ + quantity,
                          ![idx].subtotal = sampleCart.items[idx].price
                                            * (sampleCart.items[idx].quantity + quantity)]
                  ELSE Append(sampleCart.items,
                              [id |-> id, productId |-> productId, quantity |-> quantity,
                               price |-> price, subtotal |-> price * quantity])
     IN sampleCart' = SampleTotals(items)
  /\ last' = Call("sampleCartPost", 0, productId, TRUE)
  /\ UNCHANGED <<products, carts, orders, req, ledger, startsLeft>>

\* PUT /api/cart/:itemId of the sample cart
SampleCartPut(itemId, quantity) ==
  /\ opsLeft > 0
  /\ opsLeft' = opsLeft - 1
  /\ LET idx == SampleIndexById(sampleCart.items, itemId)
     IN IF idx = 0
        THEN /\ sampleCart' = sampleCart
             /\ last' = Call("sampleCartPut", 0, itemId, FALSE)
        ELSE /\ sampleCart' = SampleTotals(
                  IF quantity <= 0 THEN Splice(sampleCart.items, idx)
                  ELSE [sampleCart.items EXCEPT
                          ![idx].quantity = quantity,
                          ![idx].subtotal = sampleCart.items[idx].price * quantity])
             /\ last' = Call("sampleCartPut", 0, itemId, TRUE)
  /\ UNCHANGED <<products, carts, orders, req, ledger, startsLeft>>

\* DELETE /api/cart/:itemId of the sample cart
SampleCartDeleteItem(itemId) ==
  /\ opsLeft > 0
  /\ opsLeft' = opsLeft - 1
  /\ LET idx == SampleIndexById(sampleCart.items, itemId)
     IN IF idx = 0
        THEN /\ sampleCart' = sampleCart
             /\ last' = Call("sampleCartDeleteItem", 0, itemId, FALSE)
        ELSE /\ sampleCart' = SampleTotals(Splice(sampleCart.items, idx))
             /\ last' = Call("sampleCartDeleteItem", 0, itemId, TRUE)
  /\ UNCHANGED <<products, carts, orders, req, ledger, startsLeft>>

\* DELETE /api/cart of the sample cart
SampleCartClear ==
  /\ opsLeft > 0
  /\ opsLeft' = opsLeft - 1
  /\ sampleCart' = EmptySampleCart
  /\ last' = Call("sampleCartClear", 0, "none", TRUE)
  /\ UNCHANGED <<products, carts, orders, req, ledger, startsLeft>>

\* ------------------------------------------------------- specification
Principals == Users \cup {Admin}

\* the steps of a createOrder request of user u in flight as r, up to the
\* answer of Order.create
CreateOrderSteps(r, u) ==
  \/ \E pm \in {"cod", "stripe"} : CO_LoadCart(r, u, pm)
  \/ CO_Populate(r)
  \/ CO_Validate(r)
  \/ CO_PrepareItem(r)
  \/ CO_Create(r)

\* the steps of createOrder behind a successful Order.create
CreateOrderStored(r) ==
  \/ CO_OrderNumber(r)
  \/ CO_Insert(r)
  \/ CO_ReserveRead(r)
  \/ CO_ReserveSave(r)
  \/ CO_ClearCart(r)
  \/ CO_UserStats(r)
  \/ CO_EmailAndRespond(r)

\* the steps of a confirmPayment request of user u in flight as r, up to
\* the answer of Order.create
ConfirmPaymentSteps(r, u) ==
  \/ \E pi \in Intents, ok \in BOOLEAN : CP_LoadCart(r, u, pi, ok)
  \/ CP_Populate(r)
  \/ CP_ItemRead(r)
  \/ CP_ReserveSave(r)
  \/ CP_Create(r)

\* the steps of confirmPayment behind a successful Order.create
ConfirmPaymentStored(r) ==
  \/ CP_OrderNumber(r)
  \/ CP_Insert(r)
  \/ CP_ClearCart(r)
  \/ CP_UserStats(r)
  \/ CP_ProductAnalytics(r)
  \/ CP_EmailAndRespond(r)

\* the handlers that change an order, in flight as r
OrderSteps(r) ==
  \/ \E o \in OrderIds, s \in OrderStatuses, n \in Notes : US_Load(r, o, s, n)
  \/ US_Save(r)
  \/ US_Analytics(r)
  \/ US_ReleaseRead(r)
  \/ US_ReleaseSave(r)
  \/ \E o \in OrderIds, tn \in {"TN1"} : AT_Load(r, o, tn)
  \/ AT_Save(r)
  \/ \E u \in Principals, o \in OrderIds, reason \in Reasons : CN_Load(r, u, o, reason)
  \/ CN_Save(r)
  \/ \E u \in Principals, o \in OrderIds, reason \in Reasons, w \in BOOLEAN :
       RR_Load(r, u, o, reason, w)
  \/ RR_Save(r)
  \/ \E o \in OrderIds : \E a \in RefundAmounts(orders[o]) : RF_Load(r, o, a)
  \/ \E ok \in BOOLEAN : RF_Save(r, ok)
  \/ RF_Restock(r)
  \/ \E pi \in Intents : PF_Load(r, pi)
  \/ PF_Save(r)
  \/ PF_Restock(r)

\* the admin's stock update, in flight as r
StockAdminSteps(r) ==
  \/ \E p \in Prods, n \in {-1, 1}, operation \in {"set", "add", "subtract"} :
       PS_Load(r, p, n, operation)
  \/ PS_Save(r)

\* the admin's changes of the catalogue, in flight as r: a product is
\* deactivated, its price is set to 120, its stock is set, it is deleted, a
\* product the collection does not hold is created
CatalogueSteps(r) ==
  \/ \E p \in Prods : UP_Load(r, p, "isActive", 0)
  \/ \E p \in Prods : UP_Load(r, p, "price", 120)
  \/ \E p \in Prods, n \in {-1, 0, MaxStock} : UP_Load(r, p, "stock", n)
  \/ UP_Write(r)
  \/ \E p \in Prods : DP_Load(r, p)
  \/ DP_Delete(r)
  \/ \E p \in Prods, n \in {-1, 1}, found \in BOOLEAN :
       NP_Category(r, p, BasePrice[p], n, found)
  \/ NP_Create(r)

\* the product methods called by a caller in flight as r, with the
\* quantities an order line can have (at least 1)
StockMethodSteps(r) ==
  \/ \E p \in Prods, q \in 1..MaxQty : SM_Load(r, p, "reserveStock", q)
  \/ \E p \in Prods, q \in 1..MaxQty : SM_Load(r, p, "releaseStock", q)
  \/ SM_Call(r)

\* an order the database holds: the document a creation for the cart would
\* have stored, in the given status
StoredOrder(user, cart, paymentMethod, paymentStatus, paymentIntentId, status, sequence) ==
  [NewOrder(OrderDocument(user,
                          [i \in 1..Len(cart.items) |-> OrderItem(cart.items[i])],
                          cart.totalAmount, calculateTaxAmount(cart.totalAmount),
                          calculateShippingCost(cart),
                          paymentMethod, paymentStatus, paymentIntentId, status),
            FormatOrderNumber(CurrentPrefix, sequence))
   EXCEPT !.milestones = SetMilestone({}, status)]

\* Two order creations at a time, by either user, interleaved at every
\* await.
NextReserve ==
  \E r \in {"r1", "r2"}, u \in Users :
    \/ CreateOrderSteps(r, u)
    \/ ConfirmPaymentSteps(r, u)

InitReserve ==
  InitWith([Prods -> 1..MaxStock], {CartAB, CartA}, {CartA}, MaxStarts, 0)

SpecReserve == InitReserve /\ [][NextReserve]_vars

\* One order of customer u1 (paid on delivery, paid through the payment
\* intent, in processing, or delivered) and two of the handlers that change
\* an order at a time.
LifecycleCollections ==
  {<<StoredOrder("u1", CartA, "cod", "pending", "none", "confirmed", 1)>>,
   <<StoredOrder("u1", CartA, "cod", "pending", "none", "processing", 1)>>,
   <<StoredOrder("u1", CartAB, "stripe", "paid", "pi1", "confirmed", 1)>>,
   <<StoredOrder("u1", CartA, "stripe", "paid", "pi1", "delivered", 1)>>}

NextLifecycle == \E r \in {"r1", "r2"} : OrderSteps(r)

InitLifecycle ==
  InitWithOrders({[p \in Prods |-> MaxStock]}, {CartA}, {CartA}, 0, MaxOps,
                 LifecycleCollections)

SpecLifecycle == InitLifecycle /\ [][NextLifecycle]_vars

\* Everything that writes a product's stock: the reservations of
\* confirmPayment, the releases (status update to cancelled, refund,
\* payment-failed webhook), the admin's stock update and the product
\* methods called directly, next to the order an earlier payment left.
StockOrderSteps(r) ==
  \/ \E o \in OrderIds, n \in Notes : US_Load(r, o, "cancelled", n)
  \/ US_Save(r)
  \/ US_ReleaseRead(r)
  \/ US_ReleaseSave(r)
  \/ \E o \in OrderIds : RF_Load(r, o, 0)
  \/ RF_Save(r, TRUE)
  \/ RF_Restock(r)
  \/ \E pi \in Intents : PF_Load(r, pi)
  \/ PF_Save(r)
  \/ PF_Restock(r)

NextStock ==
  \/ ConfirmPaymentSteps("r1", "u2")
  \/ StockOrderSteps("r2")
  \/ StockAdminSteps("r3")
  \/ \E p \in Prods, n \in {-1, 0} : UP_Load("r3", p, "stock", n)
  \/ UP_Write("r3")
  \/ StockMethodSteps("r3")

InitStock ==
  InitWithOrders({[p \in Prods |-> IF p = "A" THEN 1 ELSE MaxStock]}, {CartA}, {CartAB},
                 StockStarts, StockOps,
                 {<<StoredOrder("u1", CartA, "stripe", "paid", "pi1", "confirmed", 1)>>})

SpecStock == InitStock /\ [][NextStock]_vars

\* One customer's createOrder racing with the product administration.
NextValidation ==
  \/ CreateOrderSteps("r1", "u1")
  \/ StockAdminSteps("r2")
  \/ CatalogueSteps("r2")

InitValidation ==
  InitWith({[p \in Prods |-> IF p = "A" THEN 1 ELSE MaxStock]}, {CartAB, NoCart}, {CartA},
           MaxStarts, MaxOps)

SpecValidation == InitValidation /\ [][NextValidation]_vars

\* The order creations of a customer whose cart holds one unit of B, the
\* last one in stock, next to another customer's creations for A.
InitScenario ==
  InitWith({[p \in Prods |-> IF p = "B" THEN 1 ELSE MaxStock]}, {CartB}, {CartA},
           MaxStarts, 0)

SpecScenario == InitScenario /\ [][NextReserve]_vars

\* One customer's createOrder requests on carts whose prices and quantities
\* reach the free-shipping threshold and the shipping cap: the admin sets
\* prices, and lines are added to the cart.
ShippingPrices == {10, freeShippingThreshold}

NextShipping ==
  \/ CreateOrderSteps("r1", "u1")
  \/ \E p \in Prods, price \in ShippingPrices : UP_Load("r2", p, "price", price)
  \/ UP_Write("r2")
  \/ \E p \in Prods, q \in {1, BulkQty} : CS_Load("r3", "u1", "addItem", p, q, FALSE)
  \/ CS_Save("r3")

InitShipping ==
  InitWith({[p \in Prods |-> BulkQty + 1]}, {CartOf(<<>>), CartA}, {CartA},
           MaxStarts, ShippingOps)

SpecShipping == InitShipping /\ [][NextShipping]_vars

\* The product methods called one after the other.
InitProduct == InitWith([Prods -> 0..MaxStock], {CartA}, {CartA}, 0, ProductOps)

SpecProduct == InitProduct /\ [][StockMethodSteps("r1")]_vars

\* Order creations that run one at a time, in a database that may already
\* hold an order of the month before or the month's order with the highest
\* number (the month's orders below it never come first in the hook's
\* sorted query and are left out).
PastOrder(prefix, sequence) ==
  [StoredOrder("u2", CartA, "cod", "pending", "none", "delivered", sequence)
   EXCEPT !.orderNumber = FormatOrderNumber(prefix, sequence)]

PastCollections ==
  {<<>>, <<PastOrder(EarlierPrefix, 7)>>, <<PastOrder(CurrentPrefix, 7)>>,
   <<PastOrder(CurrentPrefix, 9998)>>, <<PastOrder(CurrentPrefix, 9999)>>}

NextNumber ==
  \E u \in Users :
    \/ CreateOrderSteps("r1", u)
    \/ ConfirmPaymentSteps("r1", u)

InitNumber ==
  InitWithOrders({[p \in Prods |-> MaxStock]}, {CartAB, CartA}, {CartA},
                 MaxStarts, 0, PastCollections)

SpecNumber == InitNumber /\ [][NextNumber]_vars

\* The cart methods called one after the other on one customer's cart,
\* while the admin changes the products the lines refer to and the empty
\* carts are cleaned up, and the routes of the sample cart.
SampleIds == {"item_1", "item_2"}
CartSteps(r, u) ==
  \/ \E p \in Prods, q \in 0..MaxQty, populate \in BOOLEAN :
       CS_Load(r, u, "addItem", p, q, populate)
  \/ \E p \in Prods, q \in 0..MaxQty, populate \in BOOLEAN :
       CS_Load(r, u, "updateItemQuantity", p, q, populate)
  \/ \E p \in Prods, populate \in BOOLEAN : CS_Load(r, u, "removeItem", p, 0, populate)
  \/ \E populate \in BOOLEAN : CS_Load(r, u, "clearCart", "A", 0, populate)
  \/ \E populate \in BOOLEAN : CS_Load(r, u, "markAsAbandoned", "A", 0, populate)
  \/ \E populate \in BOOLEAN : CS_Load(r, u, "validateItems", "A", 0, populate)
  \/ \E populate \in BOOLEAN : CS_Load(r, u, "applyValidation", "A", 0, populate)
  \/ CS_Populate(r)
  \/ CS_Save(r)
  \/ VI_Line(r)
  \/ AV_Result(r)

SampleCartSteps ==
  \/ \E p \in Prods, q \in 1..MaxQty, id \in SampleIds :
       SampleCartPost(p, q, BasePrice[p], id)
  \/ \E id \in SampleIds, q \in 0..MaxQty : SampleCartPut(id, q)
  \/ \E id \in SampleIds : SampleCartDeleteItem(id)
  \/ SampleCartClear

NextCart ==
  \/ CartSteps("r1", "u1")
  \/ CatalogueSteps("r2")
  \/ \E old \in SUBSET Users : CleanupEmptyCarts(old)
  \/ SampleCartSteps

InitCart ==
  InitWith({[p \in Prods |-> IF p = "A" THEN 1 ELSE n] : n \in {1, MaxStock}},
           {CartAB, CartA}, {CartA}, 0, CartOps)

SpecCart == InitCart /\ [][NextCart]_vars

\* One order of one customer, the handlers that change it and the product
\* administration changing the products it was made of.
NextFrame ==
  \/ OrderSteps("r1")
  \/ StockAdminSteps("r2")
  \/ CatalogueSteps("r2")

InitFrame ==
  InitWithOrders({[p \in Prods |-> MaxStock]}, {CartA}, {CartA}, 0, MaxOps,
                 LifecycleCollections)

SpecFrame == InitFrame /\ [][NextFrame]_vars

\* One customer's createOrder requests, one at a time.
InitAlone ==
  InitWith([Prods -> 1..MaxStock], {CartAB, CartA}, {CartA}, MaxStarts, 0)

SpecAlone == InitAlone /\ [][CreateOrderSteps("r1", "u1")]_vars

\* One customer confirming payments of the same payment intent, and putting
\* items in the cart again between two confirmations.
NextIntent ==
  \/ ConfirmPaymentSteps("r1", "u1")
  \/ ConfirmPaymentSteps("r2", "u1")
  \/ \E p \in Prods, q \in 1..MaxQty : CS_Load("r3", "u1", "addItem", p, q, FALSE)
  \/ CS_Save("r3")

InitIntent ==
  InitWith({[p \in Prods |-> MaxStock]}, {CartA}, {CartA}, MaxStarts, MaxOps)

SpecIntent == InitIntent /\ [][NextIntent]_vars

Next ==
  \/ \E r \in Reqs, u \in Users : CreateOrderSteps(r, u)
  \/ \E r \in Reqs : CreateOrderStored(r)
  \/ \E r \in Reqs, u \in Users : ConfirmPaymentSteps(r, u)
  \/ \E r \in Reqs : ConfirmPaymentStored(r)
  \/ \E r \in Reqs : OrderSteps(r)
  \/ \E r \in Reqs : \E p \in Prods, n \in -1..MaxStock,
                        operation \in {"set", "add", "subtract"} :
       PS_Load(r, p, n, operation)
  \/ \E r \in Reqs : PS_Save(r)
  \/ \E r \in Reqs : CatalogueSteps(r)
  \/ \E r \in Reqs : StockMethodSteps(r)
  \/ \E r \in Reqs, u \in Users : CartSteps(r, u)
  \/ \E old \in SUBSET Users : CleanupEmptyCarts(old)
  \/ SampleCartSteps

\* The whole system.  The claims below are checked under the
\* sub-specifications above, each of which keeps the handlers a claim is about.
Spec == Init /\ [][Next]_vars

\* =============================================================== claims
NonTerminal == {"pending", "confirmed", "processing", "shipped"}
Terminal == {"delivered", "cancelled", "refunded"}
ValidationErrors == {"EmptyCart", "CartValidationFailed", "ProductNotFound",
                     "ProductInactive", "InsufficientStock"}

\* request r has answered as handler op
Answered(r, op) == req[r].pc = "responded" /\ req[r].op = op

\* the step just taken is the step of request r at position pc
StepAt(r, pc) == req[r].pc = pc /\ req'[r] # req[r]

\* C1 (SpecReserve): with only reserve attempts running, the quantities of
\* the reservations that were saved for a product never add up to more than
\* the product's stock before the first attempt.
C1_NoOversell ==
  \A p \in Prods : ledger.reserved[p] <= ledger.stock0[p]

\* C2 (SpecReserve): two createOrder requests, one per user, each for the
\* last unit of A (stock 1): once both have answered, exactly one has
\* created an order, the other was refused for insufficient stock, only one
\* order exists and the stock of A is 0.
C2_LastUnit ==
  ( /\ ledger.stock0["A"] = 1
    /\ \A u \in Users : ledger.carts0[u] = CartA
    /\ startsLeft = MaxStarts - 2
    /\ Answered("r1", "createOrder") /\ Answered("r2", "createOrder")
    /\ req["r1"].user # req["r2"].user )
  => /\ \E w \in {"r1", "r2"} :
          \A r \in {"r1", "r2"} :
            req[r].outcome = IF r = w THEN "created" ELSE "InsufficientStock"
     /\ Len(orders) = 1
     /\ products["A"].stock = 0

\* C3 (SpecStock): the persisted stock of every product is never negative.
C3_StockNonNegative ==
  \A p \in Prods : products[p].stock >= 0

\* C3 witness: a payment confirmation was refused for the stock of A after
\* a call of reserveStock had taken the last unit
C3_Witness ==
  /\ Answered("r1", "confirmPayment") /\ req["r1"].outcome = "InsufficientStock"
  /\ last.op = "reserveStock" /\ last.ok /\ last.arg = "A" /\ last.result = 0
  /\ products["A"].stock = 0

\* C5 (SpecReserve): a createOrder or confirmPayment request that ended in
\* rejection has no reservation of its own in place and has not cleared the
\* cart.
C5_RejectionLeavesNoEffects ==
  \A r \in Reqs :
    (req[r].pc = "responded" /\ req[r].outcome # "created")
    => /\ req[r].reserved = NoReserved
       /\ ~req[r].cleared

\* C6 (SpecValidation): no step of a createOrder request that ends rejected
\* for an empty or missing cart, for validation flags or for a missing,
\* inactive or short product changes an order, a product or a cart; the
\* rejected request has reserved nothing and not cleared the cart; a request
\* that holds flags never goes past validation, and it answers with them.
C6_ValidationFailsCleanly ==
  [][ \A r \in Reqs :
        (req'[r].op = "createOrder" /\ req'[r] # req[r])
        => /\ (req'[r].pc = "responded" /\ req'[r].outcome \in ValidationErrors)
              => /\ orders' = orders /\ products' = products /\ carts' = carts
                 /\ req'[r].order = 0
                 /\ req'[r].reserved = NoReserved
                 /\ ~req'[r].cleared
                 /\ (req'[r].outcome = "CartValidationFailed" <=> Len(req'[r].flags) > 0)
           /\ req'[r].pc \notin {"co_create", "responded"}
              => (orders' = orders /\ products' = products /\ carts' = carts)
           /\ Len(req'[r].flags) > 0 => req'[r].pc \in {"co_validate", "responded"}
    ]_vars

\* C6 witness: a request was rejected with the flag of its second line, whose
\* product had been deleted before the cart was populated, while the first line
\* alone would have passed
C6_Witness ==
  /\ Answered("r1", "createOrder") /\ req["r1"].outcome = "CartValidationFailed"
  /\ Len(req["r1"].flags) = 1
  /\ req["r1"].flags[1].action = "remove"
  /\ req["r1"].flags[1].productId = NullProduct
  /\ carts["u1"] = ledger.carts0["u1"]
  /\ Len(orders) = 0

\* C7 (SpecLifecycle): a successful call of the cancel handler sets the
\* status to cancelled, records the reason and adds every order line's
\* quantity to its product's stock.
C7_CancelReleasesStock ==
  [][ \A r \in Reqs :
        (StepAt(r, "cn_save") /\ req'[r].outcome = "cancelled")
        => LET o == req[r].order
           IN /\ orders'[o].status = "cancelled"
              /\ orders'[o].cancellation.reason = req[r].arg
              /\ \A p \in Prods :
                   products'[p].stock = products[p].stock + QuantityOf(orders[o].items, p)
    ]_vars

\* C8 (SpecLifecycle): the cancel handler succeeds only on an order that is
\* pending, confirmed or processing; on a shipped, delivered, cancelled or
\* refunded order it is rejected and leaves the order as it was.
C8_CancelOnlyWhenCancellable ==
  [][ \A o \in OrderIds :
        /\ \A r \in Reqs :
             (StepAt(r, "cn_save") /\ req[r].order = o /\ req'[r].outcome = "cancelled")
             => orders[o].status \in {"pending", "confirmed", "processing"}
        /\ \A r \in Reqs :
             (req'[r].op = "cancelOrder" /\ req'[r] # req[r]
                /\ req'[r].order = o /\ req'[r].outcome = "CannotBeCancelled")
             => orders'[o] = orders[o]
    ]_vars

\* the order state machine of the specification
Rank(status) ==
  CASE status = "pending"    -> 1
    [] status = "confirmed"  -> 2
    [] status = "processing" -> 3
    [] status = "shipped"    -> 4
    [] status = "delivered"  -> 5
    [] OTHER                 -> 0
LegalTransition(order, new) ==
  \/ Rank(order.status) > 0 /\ Rank(new) > Rank(order.status)
  \/ new = "cancelled" /\ order.status \in {"pending", "confirmed", "processing"}
  \/ new = "refunded" /\ order.paymentStatus = "paid"

\* C9 (SpecLifecycle): every change of an order's status is a legal
\* transition: forward along the lifecycle, to cancelled from pending,
\* confirmed or processing, or to refunded from a paid order.
C9_StatusChangesLegal ==
  [][ \A o \in 1..Len(orders) :
        orders'[o].status # orders[o].status
        => LegalTransition(orders[o], orders'[o].status) ]_vars

\* C10 (SpecLifecycle): an order that is delivered, cancelled or refunded
\* never becomes pending, confirmed, processing or shipped again.
C10_TerminalIsFinal ==
  [][ \A o \in 1..Len(orders) :
        orders[o].status \in Terminal => orders'[o].status \notin NonTerminal ]_vars

\* C11 (SpecLifecycle): every stored order, after its creation and after
\* every later save, has totalAmount = subtotal + taxAmount + shippingCost
\* - discountAmount, with subtotal the sum of its items' totals.
C11_OrderTotalsConsistent ==
  \A o \in 1..Len(orders) :
    /\ orders[o].subtotal = SumTotal(orders[o].items)
    /\ orders[o].totalAmount = orders[o].subtotal + orders[o].taxAmount
                                 + orders[o].shippingCost - orders[o].discountAmount

\* C11 witness: an order with a non-zero shipping cost that was saved again
\* by two handlers (its status history has their entries)
C11_Witness ==
  \E o \in 1..Len(orders) :
    /\ Len(orders[o].statusHistory) > 2
    /\ orders[o].shippingCost > 0
    /\ orders[o].totalAmount > orders[o].subtotal
    /\ opsLeft = 0 /\ \A r \in Reqs : Free(r)

\* the totals of a stored cart agree with its lines
CartConsistent(c) ==
  /\ \A i \in 1..Len(c.items) : c.items[i].total = c.items[i].price * c.items[i].quantity
  /\ c.totalItems = SumQuantity(c.items)
  /\ c.totalAmount = SumTotal(c.items)

\* C12 (SpecCart, the methods called one after the other): after any
\* sequence of addItem, updateItemQuantity, removeItem, clearCart and
\* applyValidation every line total of a cart is price times quantity,
\* totalItems is the sum of the quantities and totalAmount the sum of the
\* line totals; after clearCart both are 0.  The same holds for the sample
\* cart of the cart routes.
C12_CartTotalsConsistent ==
  /\ \A u \in Users : carts[u].exists => CartConsistent(carts[u])
  /\ \A r \in Reqs :
       (Answered(r, "clearCart") /\ req[r].outcome = "saved")
       => (carts[req[r].user].totalItems = 0 /\ carts[req[r].user].totalAmount = 0)
  /\ \A i \in 1..Len(sampleCart.items) :
       sampleCart.items[i].subtotal = sampleCart.items[i].price * sampleCart.items[i].quantity
  /\ sampleCart.totalItems = SumQuantity(sampleCart.items)
  /\ sampleCart.totalPrice = SumSubtotal(sampleCart.items)
  /\ last.op = "sampleCartClear" => (sampleCart.totalItems = 0 /\ sampleCart.totalPrice = 0)

\* C12 witness: applyValidation has repriced a line of several units
C12_Witness ==
  /\ Answered("r1", "applyValidation") /\ req["r1"].outcome = "applied"
  /\ \E i \in 1..Len(carts["u1"].items) :
       /\ carts["u1"].items[i].price = 120
       /\ carts["u1"].items[i].quantity > 1
       /\ carts["u1"].items[i].total = 120 * carts["u1"].items[i].quantity

\* C13 (SpecReserve): order creations of the same month that run
\* concurrently all get an order number: no two stored orders share a
\* number, and no creation is answered with a failure of Order.create.
C13_ConcurrentNumbersDistinct ==
  /\ \A i, j \in 1..Len(orders) :
       i # j => orders[i].orderNumber # orders[j].orderNumber
  /\ \A r \in Reqs : ~(req[r].pc = "responded" /\ req[r].phase = "create")

\* the highest sequence among the month's orders, read as numbers; 0 if none
HighestSequence(os) ==
  IF OfMonth(os, CurrentPrefix) = {} THEN 0
  ELSE CHOOSE n \in {ParseInt(os[i].orderNumber.digits) : i \in OfMonth(os, CurrentPrefix)} :
         \A i \in OfMonth(os, CurrentPrefix) : ParseInt(os[i].orderNumber.digits) <= n

\* C14 (SpecNumber): with creations running one at a time, no creation fails
\* at Order.create, and the order a creation inserts carries the month's
\* prefix and a 4-digit sequence that is 1 for the month's first order and
\* otherwise the highest sequence of the month plus 1, above every number
\* the month already has.
C14_SequentialNumbers ==
  [][ /\ \A r \in Reqs : ~(req'[r].pc = "responded" /\ req'[r].phase = "create")
      /\ Len(orders') = Len(orders) + 1
         => LET number == orders'[Len(orders')].orderNumber
            IN /\ number.prefix = CurrentPrefix
               /\ Len(number.digits) = sequenceWidth
               /\ ParseInt(number.digits) = HighestSequence(orders) + 1
               /\ \A i \in OfMonth(orders, CurrentPrefix) :
                    StringLess(orders[i].orderNumber.digits, number.digits)
    ]_vars

\* C15 (SpecProduct): reserveStock(q) on a product whose stock is s fails
\* and leaves the stock at s when s < q; otherwise it succeeds, the stock
\* becomes s - q and the product it resolves with has that stock.
C15_ReserveStockContract ==
  [][ \A r \in Reqs :
        (StepAt(r, "sm_call") /\ req[r].op = "reserveStock")
        => LET p == req[r].prod
               q == req[r].amount
               s == products[p].stock
           IN /\ req[r].lstock = s
              /\ IF s < q
                 THEN ~last'.ok /\ products'[p].stock = s
                 ELSE /\ last'.ok
                      /\ products'[p].stock = s - q
                      /\ last'.result = s - q
    ]_vars

\* C15 witness: both outcomes of reserveStock have happened on one product:
\* the last call was refused after an earlier one had emptied the stock
C15_Witness ==
  /\ last.op = "reserveStock" /\ ~last.ok
  /\ products[last.arg].stock = 0
  /\ ledger.stock0[last.arg] > 0

\* C16 (SpecProduct): reserveStock(q) right after releaseStock(q) on the
\* same product succeeds and returns the stock to what it was before the
\* release.
C16_ReleaseThenReserve ==
  [][ \A r \in Reqs :
        ( /\ StepAt(r, "sm_call") /\ req[r].op = "reserveStock"
          /\ last.op = "releaseStock" /\ last.arg = req[r].prod
          /\ last.quantity = req[r].amount )
        => last'.ok /\ products'[req[r].prod].stock = last.before
    ]_vars

\* C16 witness: a reserve has followed a release of the same quantity on a
\* product that had no stock before the release
C16_Witness ==
  /\ last.op = "reserveStock" /\ last.ok
  /\ last.before = last.quantity
  /\ products[last.arg].stock = 0
  /\ ledger.stock0[last.arg] = 0
  /\ opsLeft = ProductOps - 2

\* the flag the specification asks for on a cart line, NoFlag for none
ExpectedFlag(item, product) ==
  CASE ~product.exists \/ ~product.isActive ->
         [action |-> "remove", productId |-> item.product, availableStock |-> 0,
          oldPrice |-> 0, newPrice |-> 0]
    [] product.exists /\ product.isActive /\ product.stock < item.quantity ->
         [action |-> "update_quantity", productId |-> item.product,
          availableStock |-> product.stock, oldPrice |-> 0, newPrice |-> 0]
    [] product.exists /\ product.isActive /\ product.stock >= item.quantity
       /\ product.price # item.price ->
         [action |-> "update_price", productId |-> item.product, availableStock |-> 0,
          oldPrice |-> item.price, newPrice |-> product.price]
    [] OTHER -> NoFlag

\* C17 (SpecCart): validateItems goes through the lines in cart order; for
\* each line it looks at the live product and adds exactly one flag when the
\* line needs one and none otherwise: remove for a missing or inactive
\* product, else update_quantity with the stock when the stock is short,
\* else update_price with the old and new price when the price differs; it
\* changes neither the cart nor a product.
C17_ValidateItemsFlags ==
  [][ \A r \in Reqs :
        StepAt(r, "vi_line")
        => LET item == req[r].cart.items[req[r].idx]
               flag == ExpectedFlag(item, FindProduct(products, item.product))
           IN /\ carts' = carts /\ products' = products
              /\ req'[r].flags = IF flag = NoFlag THEN req[r].flags
                                 ELSE Append(req[r].flags, flag)
              /\ IF req[r].idx < Len(req[r].cart.items)
                 THEN req'[r].pc = "vi_line" /\ req'[r].idx = req[r].idx + 1
                 ELSE req'[r].pc # "vi_line"
    ]_vars

\* C17 witness: validateItems answered update_quantity for a line whose
\* price had changed as well
C17_Witness ==
  /\ Answered("r1", "validateItems") /\ Len(req["r1"].flags) > 0
  /\ req["r1"].flags[1].action = "update_quantity"
  /\ \E i \in 1..Len(carts["u1"].items) :
       /\ carts["u1"].items[i].product = IdOf(req["r1"].flags[1].productId)
       /\ carts["u1"].items[i].price # products[carts["u1"].items[i].product].price

\* C18 (SpecScenario): the first createOrder request, for a cart holding 1
\* unit of B (price 250, stock 1), hands Order.create an order of subtotal
\* 250, shipping 99 and tax 45 (total 394), and is answered with the created
\* order, the stock of B then being 0.
C18_ScenarioAmounts ==
  \A r \in Reqs :
    ( /\ req[r].op = "createOrder" /\ req[r].user = "u1"
      /\ startsLeft = MaxStarts - 1
      /\ ledger.carts0["u1"] = CartB /\ ledger.stock0["B"] = 1 )
    => /\ req[r].pc = "co_create"
          => /\ req[r].doc.subtotal = 250
             /\ req[r].doc.shippingCost = 99
             /\ req[r].doc.taxAmount = 45
             /\ OrderTotalsPreSave(req[r].doc).totalAmount = 394
       /\ req[r].pc = "responded"
          => /\ req[r].outcome = "created"
             /\ products["B"].stock = 0

\* C19 (SpecShipping): the shipping cost of the order a creation builds is 0
\* exactly when its subtotal is above the free-shipping threshold; for every
\* other order it is the base fee plus 10 per unit, capped at 299; it is
\* never above 299.
C19_ShippingCost ==
  \A r \in Reqs :
    req[r].pc = "co_create"
    => LET order == req[r].doc
       IN /\ (order.shippingCost = 0) <=> (order.subtotal > freeShippingThreshold)
          /\ order.subtotal <= freeShippingThreshold
               => order.shippingCost =
                    Min(baseShipping + perItemShipping * SumQuantity(order.items),
                        maxShipping)
          /\ order.shippingCost <= maxShipping

\* C21 (SpecLifecycle): each call of updateStatus(newStatus, notes, actor)
\* appends exactly one entry to the status history, carrying newStatus, the
\* notes and the actor, sets the milestone of newStatus, keeps every
\* earlier entry, and leaves the last entry's status equal to the order's.
C21_UpdateStatusAppendsOne ==
  [][ \A r \in Reqs :
        StepAt(r, "us_save")
        => LET o == req[r].order
               before == orders[o].statusHistory
               after == orders'[o].statusHistory
           IN /\ Len(after) = Len(before) + 1
              /\ SubSeq(after, 1, Len(before)) = before
              /\ after[Len(after)] = HistoryEntry(req[r].arg, req[r].notes, Admin)
              /\ MilestoneOf(req[r].arg) # "none"
                   => MilestoneOf(req[r].arg) \in orders'[o].milestones
              /\ after[Len(after)].status = orders'[o].status ]_vars

\* C22 (SpecLifecycle): a return request succeeds only on a delivered order
\* that has no return request yet; it then records a pending request; a
\* return request on an order whose request is recorded is rejected, and a
\* recorded request is never changed again by any operation.
C22_ReturnRequestOnce ==
  [][ /\ \A r \in Reqs :
           (StepAt(r, "rr_save") /\ req'[r].outcome = "returnRequested")
           => LET o == req[r].order
              IN /\ orders[o].status = "delivered"
                 /\ ~orders[o].returnRequest.requested
                 /\ orders'[o].returnRequest =
                      [requested |-> TRUE, reason |-> req[r].arg, status |-> "pending"]
      /\ \A o \in OrderIds :
           orders[o].returnRequest.requested
           => orders'[o].returnRequest = orders[o].returnRequest ]_vars

\* C23 (SpecLifecycle): an order whose status is shipped has a tracking
\* number: no operation moves an order to shipped without one.
C23_ShippedHasTracking ==
  \A o \in OrderIds :
    orders[o].status = "shipped" => orders[o].tracking.trackingNumber # "none"

\* C24 (SpecFrame): once an order is stored, no operation on the order and
\* no change of a product changes the order's items or its subtotal, tax,
\* shipping and discount amounts.
C24_OrderItemsFrozen ==
  [][ \A o \in OrderIds :
        /\ orders'[o].items = orders[o].items
        /\ orders'[o].subtotal = orders[o].subtotal
        /\ orders'[o].taxAmount = orders[o].taxAmount
        /\ orders'[o].shippingCost = orders[o].shippingCost
        /\ orders'[o].discountAmount = orders[o].discountAmount ]_vars

\* C24 witness: an order on which a return was requested after the product
\* of one of its lines had lost the line's price or had been deleted
C24_Witness ==
  \E o \in OrderIds :
    /\ orders[o].returnRequest.requested
    /\ orders[o].subtotal > 0
    /\ \E i \in 1..Len(orders[o].items) :
         LET product == products[orders[o].items[i].product]
         IN ~product.exists \/ product.price # orders[o].items[i].price

\* the cart and the products the first createOrder request of u1 starts from
\* pass validation: the cart has lines, each of an existing, active product
\* at its current price with enough stock
FirstCartValid ==
  LET c == ledger.carts0["u1"]
  IN /\ c.exists /\ Len(c.items) > 0
     /\ \A i \in 1..Len(c.items) :
          /\ c.items[i].price = BasePrice[c.items[i].product]
          /\ c.items[i].quantity <= ledger.stock0[c.items[i].product]

\* C26 (SpecAlone): a createOrder request that runs alone on a non-empty cart
\* that passes validation succeeds and has created exactly one order whose
\* items mirror the cart's lines, with status pending (confirmed for cash on
\* delivery) and payment status pending, has lowered the stock of every
\* product by the ordered quantity, and has left the cart existing with no
\* lines and zero totals.
C26_CreateOrderEffects ==
  LET q == req["r1"]
      c == ledger.carts0["u1"]
  IN (q.pc = "responded" /\ q.op = "createOrder" /\ startsLeft = MaxStarts - 1
      /\ FirstCartValid)
     => /\ q.outcome = "created"
        /\ Len(orders) = 1
        /\ orders[1].user = "u1"
        /\ orders[1].items = [i \in 1..Len(c.items) |-> OrderItem(c.items[i])]
        /\ orders[1].status = IF orders[1].paymentMethod = "cod"
                              THEN "confirmed" ELSE "pending"
        /\ orders[1].paymentStatus = "pending"
        /\ \A p \in Prods :
             products[p].stock = ledger.stock0[p] - QuantityOf(orders[1].items, p)
        /\ carts["u1"].exists /\ carts["u1"].items = <<>>
        /\ carts["u1"].totalItems = 0 /\ carts["u1"].totalAmount = 0

\* no request is running: every handler that started has answered
Quiescent == \A r \in Reqs : Free(r)

\* C27 (SpecLifecycle): the stock reserved for an order's lines is given
\* back at most once.  Orders are the only writers of the stock here, so a
\* product's stock is its initial stock, minus what the orders reserved,
\* plus what was given back for them; when no request is running it can
\* exceed the initial stock only if more was given back for some order than
\* that order reserved.
C27_ReleasedAtMostOnce ==
  Quiescent => \A p \in Prods : products[p].stock <= ledger.stock0[p]

\* the units of product p held by the orders that are neither cancelled nor
\* refunded
RECURSIVE HeldByOrders(_, _)
HeldByOrders(os, p) ==
  IF os = <<>> THEN 0
  ELSE (IF Head(os).status \in {"cancelled", "refunded"} THEN 0
        ELSE QuantityOf(Head(os).items, p))
       + HeldByOrders(Tail(os), p)

\* C28 (SpecLifecycle): stock conservation.  With no admin stock edits and
\* no request running, for every product the current stock plus the line
\* quantities of the orders that are neither cancelled nor refunded equals
\* the initial stock.
C28_StockConservation ==
  Quiescent
  => \A p \in Prods :
       products[p].stock + HeldByOrders(orders, p) = ledger.stock0[p]

\* C29 (SpecIntent): at most one order is ever created for a payment
\* intent, and the stock is reserved for it once: of two confirmations of
\* the same succeeded intent at most one has reserved stock.
C29_OneOrderPerIntent ==
  /\ \A pi \in Intents :
       Cardinality({o \in OrderIds : orders[o].paymentIntentId = pi}) <= 1
  /\ \A r, q \in Reqs :
       (r # q /\ req[r].op = "confirmPayment" /\ req[q].op = "confirmPayment"
          /\ req[r].pi = req[q].pi)
       => (req[r].reserved = NoReserved \/ req[q].reserved = NoReserved)

\* the items' totals of product p over all orders, each order once
RECURSIVE OrderedRevenue(_, _)
OrderedRevenue(os, p) ==
  IF os = <<>> THEN 0
  ELSE SumTotal(SelectSeq(Head(os).items, LAMBDA it : it.product = p))
       + OrderedRevenue(Tail(os), p)

\* C30 (SpecLifecycle): each order's items are added to the products'
\* purchases and revenue counters at most once over the order's life: a
\* product's counters never exceed the units and the totals of its lines
\* over all orders.
C30_CountedAtMostOnce ==
  \A p \in Prods :
    /\ products[p].purchases <= OrderedUnits(orders, p)
    /\ products[p].revenue <= OrderedRevenue(orders, p)
====
